---- MODULE Spec2Model ----
(***************************************************************************)
(* Frezze: freeze records, the scheduler worker, the unlock registry and   *)
(* the PR check-run refresh, modelled from the Rust sources.               *)
(*                                                                         *)
(* Time is a natural number (one unit = one hour, so that                  *)
(* DEFAULT_FREEZE_DURATION is 2).  An Option<T> is a sequence of length    *)
(* 0 (None) or 1 (Some(v)).                                                *)
(*                                                                         *)
(* Every `.await` of a handler is a step of its own: the request threads   *)
(* and the scheduler interleave at these points under Spec, and run one    *)
(* handler at a time under SpecSeq.  SpecRace is two concurrent /freeze    *)
(* handlers alone; SpecRefresh runs one bulk refresh unit by unit and      *)
(* SpecRetry one update_pr_with_retry, both from drawn inputs.  SpecPass   *)
(* is a /freeze racing an /unfreeze, SpecSolo one repository with one      *)
(* handler or tick at a time, SpecStore the store functions on their own,  *)
(* SpecTick and SpecWorker the scheduler worker against the clock and      *)
(* with its failures, SpecLift a repository nobody unfreezes.  SpecSweep   *)
(* is one refresh_all_active_freezes, SpecSingle refresh_single_pr and the *)
(* unlock registry on their own, SpecUnlock an /unlock-pr beside a /freeze *)
(* or an /unfreeze, SpecClients the cache of installation clients under    *)
(* two concurrent callers.  SpecPermissions is one permission check under  *)
(* a drawn configuration (user_config), SpecHandler the comment handler    *)
(* with its permission gate, SpecFrame the scheduler beside one request    *)
(* thread, SpecParse the argument loops of the command parser, SpecUndo an *)
(* unfreeze whose store update may fail, SpecEvent the pull-request event  *)
(* handler next to refresh_single_pr.                                      *)
(***************************************************************************)
EXTENDS Integers, Sequences, FiniteSets, TLC

VARIABLES now, records, unlocked_prs, open_prs, checks, pc, local, refresh, retry,
          installation_clients, tokens, user_config

vars == <<now, records, unlocked_prs, open_prs, checks, pc, local, refresh, retry,
          installation_clients, tokens, user_config>>

-----------------------------------------------------------------------------
(* Bounds of the model *)

MaxTime ==
  1

MaxRecords ==
  2

MaxDuration ==
  1

MaxPrs ==
  3

MaxRetriesBound ==
  3

(* Program constants *)

DEFAULT_FREEZE_DURATION ==
  2

default_max_concurrent_requests ==
  10

default_max_retries ==
  3

default_base_retry_delay_ms ==
  1000

default_batch_delay_ms ==
  100

-----------------------------------------------------------------------------
(* Option<T> *)

None ==
  <<>>

Some(v) ==
  <<v>>

IsSome(o) ==
  o # <<>>

Unwrap(o) ==
  o[1]

-----------------------------------------------------------------------------
(* The universe of the model *)

Targets ==
  { <<1, "o/a">>, <<2, "o/b">> }

Actors ==
  { "alice", "bob" }

(* Who issues freeze and schedule-freeze commands. *)
Initiators ==
  { "alice" }

(* The PRs unlock commands name. *)
UnlockPrNumbers ==
  { 6 }

Requests ==
  { "t1", "t2" }

Scheduler ==
  "sched"

Threads ==
  Requests \cup { Scheduler }

Branches ==
  { "main", "dev" }

(* The pull requests of a repository: number and base branch            *)
(* (#5 -> main, #6 -> main, #7 -> dev, ...).                             *)
PullRequests ==
  [ i \in 1..MaxPrs |->
      [ number |-> 4 + i, base_ref |-> IF i % 3 = 0 THEN "dev" ELSE "main" ] ]

PrNumbers ==
  { PullRequests[i].number : i \in 1..MaxPrs }

Range(s) ==
  { s[i] : i \in DOMAIN s }

-----------------------------------------------------------------------------
(* FreezeRecord and its constructors *)

NoRecord ==
  [ id |-> 0, repository |-> "", installation_id |-> 0, started_at |-> 0,
    expires_at |-> None, ended_at |-> None, initiated_by |-> "",
    ended_by |-> None, status |-> "none", branch |-> None, created_at |-> 0 ]

new(id, repository, installation_id, started_at, expires_at, initiated_by, t) ==
  [ id |-> id, repository |-> repository, installation_id |-> installation_id,
    started_at |-> started_at, expires_at |-> expires_at, ended_at |-> None,
    initiated_by |-> initiated_by, ended_by |-> None, status |-> "active",
    branch |-> None, created_at |-> t ]

new_scheduled(id, repository, installation_id, started_at, expires_at, initiated_by, t) ==
  [ id |-> id, repository |-> repository, installation_id |-> installation_id,
    started_at |-> started_at, expires_at |-> expires_at, ended_at |-> None,
    initiated_by |-> initiated_by, ended_by |-> None, status |-> "scheduled",
    branch |-> None, created_at |-> t ]

(* Uuid::new_v4(): an id no stored record and no record in flight carries. *)
FreshId ==
  LET used == { r.id : r \in records } \cup { local[t].record.id : t \in Threads }
  IN  CHOOSE i \in 1..(MaxRecords + Cardinality(Threads) + 1) :
        /\ i \notin used
        /\ \A j \in 1..(i - 1) : j \in used

-----------------------------------------------------------------------------
(* Freeze store: the SQL of libs/database/src/freeze.rs and                *)
(* src/database/freeze.rs, row by row.  A WHERE clause keeps a row when    *)
(* its condition is TRUE; the conditions below use AND/OR only, so a       *)
(* comparison with NULL (unknown) counts as not true.                      *)

overlap_where(x, record) ==
  LET s == record.started_at
      e == record.expires_at
  IN  \/ /\ x.started_at <= s
         /\ (x.expires_at = None \/ Unwrap(x.expires_at) > s)
      \/ /\ e # None
         /\ x.started_at < Unwrap(e)
         /\ (x.expires_at = None \/ Unwrap(x.expires_at) >= Unwrap(e))
      \/ /\ s <= x.started_at
         /\ (e = None \/ Unwrap(e) > x.started_at)

overlapping(recs, record) ==
  Cardinality({ x \in recs :
                  /\ x.repository = record.repository
                  /\ x.installation_id = record.installation_id
                  /\ x.status = "active"
                  /\ overlap_where(x, record) })

(* An INSERT that repeats the overlap query in the same statement. *)
insert_if_free(recs, record) ==
  IF overlapping(recs, record) > 0 THEN recs ELSE recs \cup { record }

insert(recs, record) ==
  recs \cup { record }

(* FreezeRecord::list(pool, Some(installation_id), Some(repository), active) *)
(* A list that ignores its status filter. *)
list_any_status(recs, installation_id, repository, active) ==
  { x \in recs :
      /\ x.installation_id = installation_id
      /\ x.repository = repository }

(* A list that ignores its installation and repository filters. *)
list_every_repository(recs, installation_id, repository, active) ==
  { x \in recs : active => x.status = "active" }

list(recs, installation_id, repository, active) ==
  { x \in recs :
      /\ x.installation_id = installation_id
      /\ x.repository = repository
      /\ (active => x.status = "active") }

(* An update_status that stamps ended_at whatever the new status is. *)
update_status_always_stamps(recs, id, status, ended_by, t) ==
  { IF x.id = id
      THEN [ x EXCEPT !.status = status,
                      !.ended_at = Some(t),
                      !.ended_by = ended_by ]
      ELSE x : x \in recs }

(* An update_status that leaves ended_by as it was. *)
update_status_keeps_ended_by(recs, id, status, ended_by, t) ==
  { IF x.id = id
      THEN [ x EXCEPT !.status = status,
                      !.ended_at = IF status = "ended" THEN Some(t) ELSE None ]
      ELSE x : x \in recs }

update_status(recs, id, status, ended_by, t) ==
  { IF x.id = id
      THEN [ x EXCEPT !.status = status,
                      !.ended_at = IF status = "ended" THEN Some(t) ELSE None,
                      !.ended_by = ended_by ]
      ELSE x : x \in recs }

(* An is_frozen that matches the repository name alone. *)
is_frozen_any_installation(recs, installation_id, repository) ==
  \E x \in recs :
     /\ x.repository = repository
     /\ x.status = "active"

is_frozen(recs, installation_id, repository) ==
  \E x \in recs :
     /\ x.installation_id = installation_id
     /\ x.repository = repository
     /\ x.status = "active"

(* A query of the Scheduled records that leaves the start time out. *)
get_scheduled_freezes_to_activate_any_start(recs, t) ==
  { x \in recs : x.status = "scheduled" }

get_scheduled_freezes_to_activate(recs, t) ==
  { x \in recs : x.status = "scheduled" /\ x.started_at <= t }

(* The rows an Active-freeze lookup may return for the pair. *)
get_active_freeze(recs, installation_id, repository) ==
  { x \in recs :
      /\ x.installation_id = installation_id
      /\ x.repository = repository
      /\ x.status = "active" }

(* The orders in which ORDER BY created_at DESC may return a set of rows:   *)
(* rows with equal keys come in any order.                                 *)
by_created_at_desc(rows) ==
  { q \in [1..Cardinality(rows) -> rows] :
      /\ \A i, j \in DOMAIN q : i # j => q[i] # q[j]
      /\ \A i, j \in DOMAIN q : i < j => q[i].created_at >= q[j].created_at }

(* The orders in which ORDER BY started_at ASC may return a set of rows. *)
by_started_at_asc(rows) ==
  { q \in [1..Cardinality(rows) -> rows] :
      /\ \A i, j \in DOMAIN q : i # j => q[i] # q[j]
      /\ \A i, j \in DOMAIN q : i < j => q[i].started_at <= q[j].started_at }

-----------------------------------------------------------------------------
(* Unlock registry: src/database/unlocked_pr.rs *)

(* The unique key of the unlocked_prs table, on which INSERT OR REPLACE     *)
(* replaces: (installation_id, repository, pr_number).                     *)
unlocked_prs_key(u) ==
  << u.installation_id, u.repository, u.pr_number >>

(* An INSERT that replaces nothing. *)
unlock_pr_insert_only(unl, installation_id, repository, pr_number, unlocked_by) ==
  unl \cup { [ installation_id |-> installation_id, repository |-> repository,
               pr_number |-> pr_number, unlocked_by |-> unlocked_by ] }

(* INSERT OR REPLACE INTO unlocked_prs: the row of the same key, if any, is *)
(* deleted and the new row inserted.                                        *)
unlock_pr(unl, installation_id, repository, pr_number, unlocked_by) ==
  { u \in unl : unlocked_prs_key(u) # << installation_id, repository, pr_number >> }
  \cup { [ installation_id |-> installation_id, repository |-> repository,
           pr_number |-> pr_number, unlocked_by |-> unlocked_by ] }

is_pr_unlocked(unl, installation_id, repository, pr_number) ==
  Cardinality({ u \in unl :
                  /\ u.installation_id = installation_id
                  /\ u.repository = repository
                  /\ u.pr_number = pr_number }) > 0

clear_unlocked_prs(unl, installation_id, repository) ==
  { u \in unl : ~ ( u.installation_id = installation_id /\ u.repository = repository ) }

-----------------------------------------------------------------------------
(* Check-run determination: src/freezer/pr_refresh.rs *)

(* A unit that takes any freeze record as freezing every PR. *)
batch_is_pr_frozen_any_branch(freeze_record, pr) ==
  IsSome(freeze_record)

(* update_prs_in_batches, the spawned unit: is this PR frozen? *)
batch_is_pr_frozen(freeze_record, pr) ==
  IF IsSome(freeze_record)
    THEN IF IsSome(Unwrap(freeze_record).branch)
           THEN pr.base_ref = Unwrap(Unwrap(freeze_record).branch)
           ELSE TRUE
    ELSE FALSE

batch_conclusion(freeze_record, pr) ==
  IF batch_is_pr_frozen(freeze_record, pr) THEN "failure" ELSE "success"

(* create_check_run: the output follows the freeze record handed in. *)
create_check_run_output(freeze_record) ==
  IF IsSome(freeze_record) THEN "freeze_details" ELSE "not_frozen"

(* refresh_single_pr: freeze lookup, branch scope, then the unlock lookup. *)
single_is_frozen(freeze_record, pr) ==
  IF IsSome(freeze_record)
    THEN IF IsSome(Unwrap(freeze_record).branch)
           THEN Unwrap(Unwrap(freeze_record).branch) = pr.base_ref
           ELSE TRUE
    ELSE FALSE

(* A determination that never looks at the unlock registry. *)
single_conclusion_ignores_unlock(freeze_record, unl, installation_id, repository, pr) ==
  IF single_is_frozen(freeze_record, pr) THEN "failure" ELSE "success"

single_conclusion(freeze_record, unl, installation_id, repository, pr) ==
  LET frozen   == single_is_frozen(freeze_record, pr)
      unlocked == IF frozen
                    THEN is_pr_unlocked(unl, installation_id, repository, pr.number)
                    ELSE FALSE
  IN  IF frozen /\ ~ unlocked THEN "failure" ELSE "success"

PrByNumber(n) ==
  CHOOSE p \in Range(PullRequests) : p.number = n

NoCheck ==
  [ conclusion |-> "none", output |-> "none" ]

(* The check runs a pass of refresh_repository_prs leaves on the open PRs  *)
(* of one repository; lost are the PRs whose status-create failed.         *)
pass_checks(chk, prs, target, freeze_record, lost) ==
  [ k \in DOMAIN chk |->
      IF k[1] = target /\ k[2] \in { p.number : p \in Range(prs) } \ lost
        THEN [ conclusion |-> batch_conclusion(freeze_record, PrByNumber(k[2])),
               output     |-> create_check_run_output(freeze_record) ]
        ELSE chk[k] ]

-----------------------------------------------------------------------------
(* Threads: a request thread runs one command handler at a time; the       *)
(* scheduler thread runs the worker loop.                                  *)

IdleLocal ==
  [ op |-> "none", target |-> <<0, "">>, actor |-> "", record |-> NoRecord,
    todo |-> <<>>, pr |-> 0, outcome |-> "none", failed |-> {}, client |-> None,
    user_permissions |-> None ]

(* Github::new: the cache of installation clients starts empty. *)
InstallationIds ==
  { target[1] : target \in Targets }

NoClients ==
  [ i \in InstallationIds |-> None ]

RefreshIdle ==
  [ pc |-> "off" ]

RetryIdle ==
  [ pc |-> "off" ]

(* Records stored or about to be inserted. *)
InFlight ==
  { t \in Threads : pc[t] = "create_insert" }

Init ==
  /\ now = 0
  /\ records = {}
  /\ unlocked_prs = {}
  /\ open_prs = << PrByNumber(6) >>
  /\ checks = [ k \in Targets \X PrNumbers |-> NoCheck ]
  /\ pc = [ t \in Threads |-> "idle" ]
  /\ installation_clients = NoClients
  /\ tokens = 0
  /\ user_config = None
  /\ local = [ t \in Threads |-> IdleLocal ]
  /\ refresh = RefreshIdle
  /\ retry = RetryIdle

(* The clock. *)
Advance ==
  /\ now < MaxTime
  /\ now' = now + 1
  /\ UNCHANGED <<records, unlocked_prs, checks, pc, local, refresh, retry, open_prs, installation_clients, tokens, user_config>>

(* A create that reports the overlap and goes on to the INSERT all the     *)
(* same.                                                                   *)
create_query_then_insert(t, record, op, actor) ==
  /\ pc' = [ pc EXCEPT ![t] = "create_insert" ]
  /\ local' = [ local EXCEPT ![t] =
         [ IdleLocal EXCEPT !.op = op, !.target = <<record.installation_id, record.repository>>,
                            !.actor = actor, !.record = record,
                            !.outcome = IF overlapping(records, record) > 0
                                          THEN "err_overlap" ELSE "none" ] ]

(* FreezeRecord::create, first await: the overlap query.  A positive count *)
(* returns the error; otherwise the caller goes on to the INSERT.          *)
create_query(t, record, op, actor) ==
  IF overlapping(records, record) > 0
    THEN /\ pc' = [ pc EXCEPT ![t] = "notify" ]
         /\ local' = [ local EXCEPT ![t] =
                [ IdleLocal EXCEPT !.op = op, !.target = <<record.installation_id, record.repository>>,
                                   !.actor = actor, !.record = record,
                                   !.outcome = "err_overlap" ] ]
    ELSE /\ pc' = [ pc EXCEPT ![t] = "create_insert" ]
         /\ local' = [ local EXCEPT ![t] =
                [ IdleLocal EXCEPT !.op = op, !.target = <<record.installation_id, record.repository>>,
                                   !.actor = actor, !.record = record ] ]

(* handle_freeze up to the overlap query of FreezeRecord::create. *)
handle_freeze(t, target, duration, initiated_by) ==
  /\ pc[t] = "idle"
  /\ Cardinality(records) + Cardinality(InFlight) < MaxRecords
  /\ LET start  == now
         d      == IF IsSome(duration) THEN Unwrap(duration) ELSE DEFAULT_FREEZE_DURATION
         record == new(FreshId, target[2], target[1], start, Some(start + d),
                       initiated_by, now)
     IN  create_query(t, record, "freeze", initiated_by)
  /\ UNCHANGED <<now, records, unlocked_prs, checks, refresh, retry, open_prs, installation_clients, tokens, user_config>>

(* schedule_freeze up to the overlap query of FreezeRecord::create. *)
schedule_freeze(t, target, start, end, duration, initiated_by) ==
  /\ pc[t] = "idle"
  /\ Cardinality(records) + Cardinality(InFlight) < MaxRecords
  /\ LET end_time == IF IsSome(end) THEN Unwrap(end)
                     ELSE IF IsSome(duration) THEN start + Unwrap(duration)
                     ELSE start + DEFAULT_FREEZE_DURATION
         record   == new_scheduled(FreshId, target[2], target[1], start,
                                   Some(end_time), initiated_by, now)
     IN  create_query(t, record, "schedule", initiated_by)
  /\ UNCHANGED <<now, records, unlocked_prs, checks, refresh, retry, open_prs, installation_clients, tokens, user_config>>

(* FreezeRecord::create, second await: the INSERT.  handle_freeze goes on  *)
(* to the refresh; schedule_freeze returns Ok.                             *)
create_insert(t) ==
  /\ pc[t] = "create_insert"
  /\ records' = insert(records, local[t].record)
  /\ IF local[t].op = "freeze"
       THEN /\ pc' = [ pc EXCEPT ![t] = "freeze_refresh" ]
            /\ local' = local
       ELSE /\ pc' = [ pc EXCEPT ![t] = "notify" ]
            /\ local' = [ local EXCEPT ![t].outcome = "ok" ]
  /\ UNCHANGED <<now, unlocked_prs, checks, refresh, retry, open_prs, installation_clients, tokens, user_config>>

(* refresh_repository_prs as the handlers see it: the listing fails and    *)
(* nothing is written, or the pass writes a check run on every open PR     *)
(* whose status-create did not fail.                                       *)
refresh_repository_prs(target, freeze_record, fetched, lost) ==
  IF fetched THEN pass_checks(checks, open_prs, target, freeze_record, lost) ELSE checks

(* The outcomes of a pass: the listing failed, or any set of status-create *)
(* calls failed.                                                           *)
PassOutcomes ==
  { <<FALSE, {}>> } \cup
  { <<TRUE, lost>> : lost \in SUBSET { p.number : p \in Range(open_prs) } }

(* A handle_freeze that undoes its INSERT and returns the error when the   *)
(* refresh did not update every PR.                                        *)
handle_freeze_refresh_rollback(t) ==
  /\ pc[t] = "freeze_refresh"
  /\ \E o \in PassOutcomes :
       /\ checks' = refresh_repository_prs(local[t].target, Some(local[t].record),
                                            o[1], o[2])
       /\ IF o[1] /\ o[2] = {}
            THEN /\ records' = records
                 /\ local' = [ local EXCEPT ![t].outcome = "ok" ]
            ELSE /\ records' = { x \in records : x.id # local[t].record.id }
                 /\ local' = [ local EXCEPT ![t].outcome = "err_refresh" ]
  /\ pc' = [ pc EXCEPT ![t] = "notify" ]
  /\ UNCHANGED <<now, unlocked_prs, refresh, retry, open_prs, installation_clients, tokens, user_config>>

(* handle_freeze: the refresh with the created record, then Ok(record). *)
handle_freeze_refresh(t) ==
  /\ pc[t] = "freeze_refresh"
  /\ \E o \in PassOutcomes :
       /\ checks' = refresh_repository_prs(local[t].target, Some(local[t].record),
                                            o[1], o[2])
       /\ local' = [ local EXCEPT ![t].outcome = "ok" ]
  /\ pc' = [ pc EXCEPT ![t] = "notify" ]
  /\ UNCHANGED <<now, records, unlocked_prs, refresh, retry, open_prs, installation_clients, tokens, user_config>>

(* handle_unfreeze: list the Active records of the repository. *)
handle_unfreeze(t, target, ended_by) ==
  /\ pc[t] = "idle"
  /\ LET freeze_records == list(records, target[1], target[2], TRUE)
     IN  IF freeze_records = {}
           THEN /\ pc' = [ pc EXCEPT ![t] = "notify" ]
                /\ local' = [ local EXCEPT ![t] =
                       [ IdleLocal EXCEPT !.op = "unfreeze", !.target = target,
                                          !.actor = ended_by, !.outcome = "err_not_found" ] ]
           ELSE \E q \in by_created_at_desc(freeze_records) :
                  /\ pc' = [ pc EXCEPT ![t] = "unfreeze_update" ]
                  /\ local' = [ local EXCEPT ![t] =
                         [ IdleLocal EXCEPT !.op = "unfreeze", !.target = target,
                                            !.actor = ended_by, !.todo = q ] ]
  /\ UNCHANGED <<now, records, unlocked_prs, checks, refresh, retry, open_prs, installation_clients, tokens, user_config>>

(* handle_unfreeze: end the next listed record. *)
handle_unfreeze_update(t) ==
  /\ pc[t] = "unfreeze_update"
  /\ records' = update_status(records, Head(local[t].todo).id, "ended",
                              Some(local[t].actor), now)
  /\ local' = [ local EXCEPT ![t].todo = Tail(local[t].todo) ]
  /\ pc' = [ pc EXCEPT ![t] = IF Len(local[t].todo) = 1 THEN "unfreeze_refresh"
                                                        ELSE "unfreeze_update" ]
  /\ UNCHANGED <<now, unlocked_prs, checks, refresh, retry, open_prs, installation_clients, tokens, user_config>>

(* handle_unfreeze: the refresh with no freeze record, then Ok. *)
handle_unfreeze_refresh(t) ==
  /\ pc[t] = "unfreeze_refresh"
  /\ \E o \in PassOutcomes :
       /\ checks' = refresh_repository_prs(local[t].target, None, o[1], o[2])
       /\ local' = [ local EXCEPT ![t].outcome = "ok" ]
  /\ pc' = [ pc EXCEPT ![t] = "notify" ]
  /\ UNCHANGED <<now, records, unlocked_prs, refresh, retry, open_prs, installation_clients, tokens, user_config>>

(* notify_comment_issue: the outcome is posted and the handler returns. *)
notify(t) ==
  /\ pc[t] = "notify"
  /\ pc' = [ pc EXCEPT ![t] = "idle" ]
  /\ local' = [ local EXCEPT ![t] = IdleLocal ]
  /\ UNCHANGED <<now, records, unlocked_prs, checks, refresh, retry, open_prs, installation_clients, tokens, user_config>>

(* FreezeManager::unlock_pr: the Active-freeze lookup. *)
manager_unlock_pr(t, target, pr_number, author) ==
  /\ pc[t] = "idle"
  /\ IF get_active_freeze(records, target[1], target[2]) = {}
       THEN /\ pc' = [ pc EXCEPT ![t] = "notify" ]
            /\ local' = [ local EXCEPT ![t] =
                   [ IdleLocal EXCEPT !.op = "unlock", !.target = target, !.actor = author,
                                      !.pr = pr_number, !.outcome = "err_not_frozen" ] ]
       ELSE /\ pc' = [ pc EXCEPT ![t] = "unlock_write" ]
            /\ local' = [ local EXCEPT ![t] =
                   [ IdleLocal EXCEPT !.op = "unlock", !.target = target, !.actor = author,
                                      !.pr = pr_number ] ]
  /\ UNCHANGED <<now, records, unlocked_prs, checks, refresh, retry, open_prs, installation_clients, tokens, user_config>>

(* FreezeManager::unlock_pr: the upsert, then the success comment. *)
manager_unlock_pr_write(t) ==
  /\ pc[t] = "unlock_write"
  /\ unlocked_prs' = unlock_pr(unlocked_prs, local[t].target[1], local[t].target[2],
                               local[t].pr, local[t].actor)
  /\ pc' = [ pc EXCEPT ![t] = "unlock_refresh" ]
  /\ local' = [ local EXCEPT ![t].outcome = "ok" ]
  /\ UNCHANGED <<now, records, checks, refresh, retry, open_prs, installation_clients, tokens, user_config>>

(* refresh_single_pr: the PR, the Active freeze and the unlock registry    *)
(* are read and one check run is created (or a gateway call fails).        *)
refresh_single_pr(chk, recs, unl, target, pr_number, freeze_record, fetched) ==
  IF fetched
    THEN [ chk EXCEPT ![<<target, pr_number>>] =
             [ conclusion |-> single_conclusion(freeze_record, unl, target[1], target[2],
                                                PrByNumber(pr_number)),
               output     |-> create_check_run_output(freeze_record) ] ]
    ELSE chk

(* What an Active-freeze lookup returns: one of the Active rows, or None. *)
ActiveFreezeResults(recs, target) ==
  IF get_active_freeze(recs, target[1], target[2]) = {}
    THEN { None }
    ELSE { Some(x) : x \in get_active_freeze(recs, target[1], target[2]) }

(* FreezeManager::unlock_pr: refresh_single_pr for the unlocked PR. *)
manager_unlock_pr_refresh(t) ==
  /\ pc[t] = "unlock_refresh"
  /\ \E fetched \in BOOLEAN :
       \E freeze_record \in ActiveFreezeResults(records, local[t].target) :
          checks' = refresh_single_pr(checks, records, unlocked_prs, local[t].target,
                                      local[t].pr, freeze_record, fetched)
  /\ pc' = [ pc EXCEPT ![t] = "idle" ]
  /\ local' = [ local EXCEPT ![t] = IdleLocal ]
  /\ UNCHANGED <<now, records, unlocked_prs, refresh, retry, open_prs, installation_clients, tokens, user_config>>

(* repository.split('/') on the names in play. *)
split(repository) ==
  CASE repository = "o/a"   -> << "o", "a" >>
    [] repository = "o/b"   -> << "o", "b" >>
    [] repository = "o/a/b" -> << "o", "a", "b" >>
    [] OTHER                -> << repository >>

(* check_and_activate_scheduled_freezes: the query of the due Scheduled    *)
(* records (an empty result returns at once and changes nothing).          *)
check_and_activate_scheduled_freezes ==
  /\ pc[Scheduler] = "idle"
  /\ get_scheduled_freezes_to_activate(records, now) # {}
  /\ \E q \in by_started_at_asc(get_scheduled_freezes_to_activate(records, now)) :
       local' = [ local EXCEPT ![Scheduler] =
                    [ IdleLocal EXCEPT !.op = "tick", !.todo = q ] ]
  /\ pc' = [ pc EXCEPT ![Scheduler] = "tick_activate" ]
  /\ UNCHANGED <<now, records, unlocked_prs, checks, refresh, retry, open_prs, installation_clients, tokens, user_config>>

(* activate_scheduled_freeze: update_status(id, Active, None). *)
activate_scheduled_freeze ==
  /\ pc[Scheduler] = "tick_activate"
  /\ records' = update_status(records, Head(local[Scheduler].todo).id, "active", None, now)
  /\ local' = [ local EXCEPT ![Scheduler].record = Head(local[Scheduler].todo),
                             ![Scheduler].target =
                                <<Head(local[Scheduler].todo).installation_id,
                                  Head(local[Scheduler].todo).repository>>,
                             ![Scheduler].todo = Tail(local[Scheduler].todo) ]
  /\ pc' = [ pc EXCEPT ![Scheduler] = "tick_refresh" ]
  /\ UNCHANGED <<now, unlocked_prs, checks, refresh, retry, open_prs, installation_clients, tokens, user_config>>

(* apply_freeze_to_repository: the refresh of the now frozen repository;   *)
(* then the next due record, or the end of the tick.                       *)
apply_freeze_to_repository ==
  /\ pc[Scheduler] = "tick_refresh"
  /\ Len(split(local[Scheduler].target[2])) = 2
  /\ \E o \in PassOutcomes :
       checks' = refresh_repository_prs(local[Scheduler].target,
                                        Some(local[Scheduler].record), o[1], o[2])
  /\ IF local[Scheduler].todo = <<>>
       THEN /\ pc' = [ pc EXCEPT ![Scheduler] = "idle" ]
            /\ local' = [ local EXCEPT ![Scheduler] = IdleLocal ]
       ELSE /\ pc' = [ pc EXCEPT ![Scheduler] = "tick_activate" ]
            /\ local' = [ local EXCEPT ![Scheduler].record = NoRecord ]
  /\ UNCHANGED <<now, records, unlocked_prs, refresh, retry, open_prs, installation_clients, tokens, user_config>>

(* check_and_activate_scheduled_freezes when the query of the due records  *)
(* fails: the tick returns the error, start logs it and waits for the next *)
(* tick.                                                                   *)
get_scheduled_freezes_to_activate_err ==
  /\ pc[Scheduler] = "idle"
  /\ local' = [ local EXCEPT ![Scheduler] =
         [ IdleLocal EXCEPT !.op = "tick", !.outcome = "err_query" ] ]
  /\ UNCHANGED <<now, records, unlocked_prs, checks, pc, refresh, retry, open_prs, installation_clients, tokens, user_config>>

(* The loop of a tick after the activation of the head record returned     *)
(* Err: the error is logged and the loop goes on with the next record.     *)
next_after_failure(failed_id) ==
  /\ local' = [ local EXCEPT ![Scheduler].todo = Tail(local[Scheduler].todo),
                             ![Scheduler].record = NoRecord,
                             ![Scheduler].failed = local[Scheduler].failed \cup { failed_id } ]
  /\ pc' = [ pc EXCEPT ![Scheduler] = IF Tail(local[Scheduler].todo) = <<>>
                                        THEN "idle" ELSE "tick_activate" ]

(* A loop that gives the tick up at the first failed activation. *)
activate_scheduled_freeze_abort ==
  /\ pc[Scheduler] = "tick_activate"
  /\ local' = [ local EXCEPT ![Scheduler].todo = <<>>,
                             ![Scheduler].failed = local[Scheduler].failed
                                                     \cup { Head(local[Scheduler].todo).id } ]
  /\ pc' = [ pc EXCEPT ![Scheduler] = "idle" ]
  /\ UNCHANGED <<now, records, unlocked_prs, checks, refresh, retry, open_prs, installation_clients, tokens, user_config>>

(* activate_scheduled_freeze when update_status fails: nothing is written. *)
activate_scheduled_freeze_err ==
  /\ pc[Scheduler] = "tick_activate"
  /\ next_after_failure(Head(local[Scheduler].todo).id)
  /\ UNCHANGED <<now, records, unlocked_prs, checks, refresh, retry, open_prs, installation_clients, tokens, user_config>>

(* activate_scheduled_freeze when the repository name of the record, now   *)
(* Active, does not split into owner and name: Err, and no refresh.        *)
activate_scheduled_freeze_invalid ==
  /\ pc[Scheduler] = "tick_refresh"
  /\ Len(split(local[Scheduler].target[2])) # 2
  /\ IF local[Scheduler].todo = <<>>
       THEN /\ pc' = [ pc EXCEPT ![Scheduler] = "idle" ]
            /\ local' = [ local EXCEPT ![Scheduler].record = NoRecord,
                                       ![Scheduler].failed = local[Scheduler].failed
                                            \cup { local[Scheduler].record.id } ]
       ELSE /\ pc' = [ pc EXCEPT ![Scheduler] = "tick_activate" ]
            /\ local' = [ local EXCEPT ![Scheduler].record = NoRecord,
                                       ![Scheduler].failed = local[Scheduler].failed
                                            \cup { local[Scheduler].record.id } ]
  /\ UNCHANGED <<now, records, unlocked_prs, checks, refresh, retry, open_prs, installation_clients, tokens, user_config>>

-----------------------------------------------------------------------------
(* Inputs of the commands *)

Durations ==
  { None } \cup { Some(d) : d \in 0..MaxDuration }

Times ==
  0..MaxTime

(* The command handlers, with the inputs a specification draws. *)
FreezeCommands(t, targets, durations) ==
  \/ \E target \in targets, duration \in durations, actor \in Initiators :
       handle_freeze(t, target, duration, actor)
  \/ create_insert(t)
  \/ handle_freeze_refresh(t)
  \/ notify(t)

ScheduleCommands(t, targets, durations) ==
  \/ \E target \in targets, start \in Times, duration \in durations, actor \in Initiators :
       schedule_freeze(t, target, start, None, duration, actor)
  \/ \E target \in targets, start \in Times, actor \in Initiators :
       schedule_freeze(t, target, start, Some(start + 1), Some(1), actor)

UnfreezeCommands(t, targets, actors) ==
  \/ \E target \in targets, actor \in actors : handle_unfreeze(t, target, actor)
  \/ handle_unfreeze_update(t)
  \/ handle_unfreeze_refresh(t)

UnlockCommands(t, targets, actors) ==
  \/ \E target \in targets, n \in UnlockPrNumbers, actor \in actors :
       manager_unlock_pr(t, target, n, actor)
  \/ manager_unlock_pr_write(t)
  \/ manager_unlock_pr_refresh(t)

SchedulerStep ==
  \/ check_and_activate_scheduled_freezes
  \/ activate_scheduled_freeze
  \/ apply_freeze_to_repository

(* One handler (or one scheduler tick) at a time. *)
Solo(t) ==
  \A u \in Threads \ { t } : pc[u] = "idle"

NextSeq ==
  \/ Solo("t1") /\ FreezeCommands("t1", Targets, Durations)
  \/ Solo("t1") /\ ScheduleCommands("t1", Targets, Durations)
  \/ Solo("t1") /\ UnfreezeCommands("t1", Targets, Initiators)
  \/ Solo("t1") /\ UnlockCommands("t1", Targets, Actors)
  \/ Solo(Scheduler) /\ SchedulerStep
  \/ Advance

SpecSeq ==
  Init /\ [][NextSeq]_vars

(* Two webhook handlers and the scheduler run concurrently on one
   repository; every await is a point where another task may run. *)
SharedTargets ==
  { <<1, "o/a">> }

SharedDurations ==
  { None, Some(MaxDuration) }

Next ==
  \/ \E t \in Requests : FreezeCommands(t, SharedTargets, SharedDurations)
  \/ \E t \in Requests : ScheduleCommands(t, SharedTargets, SharedDurations)
  \/ \E t \in Requests : UnfreezeCommands(t, SharedTargets, Actors)
  \/ SchedulerStep
  \/ Advance

Spec ==
  Init /\ [][Next]_vars

(* Two concurrent /freeze handlers on one repository, and the clock. *)
NextRace ==
  \/ \E t \in Requests : FreezeCommands(t, SharedTargets, SharedDurations)
  \/ Advance

SpecRace ==
  Init /\ [][NextRace]_vars

-----------------------------------------------------------------------------
(* The synchronizer in detail: refresh_repository_prs and                  *)
(* update_prs_in_batches, one spawned unit per PR of a chunk, the handles  *)
(* joined in order.  A unit ends Ok ("ok"), Err after its retries ("err"), *)
(* or is lost to a panic or a cancellation ("panic": a join error).        *)

MaxConcurrent ==
  2

ConcurrencyLimits ==
  { MaxConcurrent, default_max_concurrent_requests }

UnitOutcomes ==
  { "ok", "err", "panic" }

RefreshTarget ==
  <<1, "o/a">>

with_branch(record, branch) ==
  [ record EXCEPT !.branch = branch ]

(* The freeze record handed to the pass: none, unscoped, or branch-scoped. *)
FreezeInputs ==
  { None } \cup
  { Some(with_branch(new(1, RefreshTarget[2], RefreshTarget[1], 0,
                         Some(DEFAULT_FREEZE_DURATION), "alice", 0), b)) :
      b \in { None } \cup { Some(x) : x \in Branches } }

PrLists ==
  { SubSeq(PullRequests, 1, n) : n \in 0..MaxPrs }

RefreshStart(freeze_record, max_concurrent_requests) ==
  [ pc |-> "fetch", target |-> RefreshTarget, freeze_record |-> freeze_record,
    max_concurrent_requests |-> max_concurrent_requests, prs |-> <<>>,
    units |-> <<>>, next |-> 1, last |-> 0, join |-> 1,
    successful_updates |-> 0, failed_updates |-> 0, errors |-> <<>>,
    total_prs |-> 0, fetches |-> 0, calls |-> 0, sleeps |-> 0, result |-> "none" ]

InitRefresh ==
  /\ now = 0
  /\ \E f \in FreezeInputs, m \in ConcurrencyLimits :
       /\ records = IF IsSome(f) THEN { Unwrap(f) } ELSE {}
       /\ refresh = RefreshStart(f, m)
  /\ unlocked_prs \in { {}, unlock_pr({}, RefreshTarget[1], RefreshTarget[2], 6, "bob") }
  /\ open_prs \in PrLists
  /\ checks = [ k \in Targets \X PrNumbers |-> NoCheck ]
  /\ pc = [ t \in Threads |-> "idle" ]
  /\ installation_clients = NoClients
  /\ tokens = 0
  /\ user_config = None
  /\ local = [ t \in Threads |-> IdleLocal ]
  /\ retry = RetryIdle

(* Chunks that are one PR longer than the limit. *)
chunk_end_one_more(next, size, n) ==
  IF next + size < n THEN next + size ELSE n

(* prs.chunks(size): the last index of the chunk that starts at next. *)
chunk_end(next, size, n) ==
  IF next + size - 1 < n THEN next + size - 1 ELSE n

(* The join of one handle: Ok(Ok), Ok(Err) or Err(join error). *)
successful_after(n, outcome) ==
  IF outcome = "ok" THEN n + 1 ELSE n

(* A tally that lets a join error go uncounted. *)
failed_after_err_only(n, outcome) ==
  IF outcome = "err" THEN n + 1 ELSE n

failed_after(n, outcome) ==
  IF outcome = "err" \/ outcome = "panic" THEN n + 1 ELSE n

errors_after(errors, outcome, number) ==
  IF outcome = "err" THEN Append(errors, <<number, "error">>)
  ELSE IF outcome = "panic" THEN Append(errors, <<number, "Task join error">>)
  ELSE errors

RefreshResult(r) ==
  [ r EXCEPT !.pc = "done", !.result = "ok", !.total_prs = Len(r.prs) ]

(* A listing that is tried once more after its first failure. *)
refresh_fetch_retrying ==
  /\ refresh.pc = "fetch"
  /\ \E fetched \in BOOLEAN :
       refresh' =
         IF ~ fetched
           THEN IF refresh.fetches = 0
                  THEN [ refresh EXCEPT !.fetches = @ + 1 ]
                  ELSE [ refresh EXCEPT !.pc = "done", !.result = "err",
                                        !.fetches = @ + 1 ]
         ELSE IF open_prs = <<>>
           THEN [ refresh EXCEPT !.pc = "done", !.result = "ok", !.fetches = @ + 1 ]
         ELSE [ refresh EXCEPT !.pc = "spawn", !.prs = open_prs, !.fetches = @ + 1,
                               !.units = [ i \in 1..Len(open_prs) |-> "pending" ] ]
  /\ UNCHANGED <<now, records, unlocked_prs, open_prs, checks, pc, local, retry, installation_clients, tokens, user_config>>

(* refresh_repository_prs: the listing of the open PRs. *)
refresh_fetch ==
  /\ refresh.pc = "fetch"
  /\ \E fetched \in BOOLEAN :
       refresh' =
         IF ~ fetched
           THEN [ refresh EXCEPT !.pc = "done", !.result = "err", !.fetches = @ + 1 ]
         ELSE IF open_prs = <<>>
           THEN [ refresh EXCEPT !.pc = "done", !.result = "ok", !.fetches = @ + 1 ]
         ELSE [ refresh EXCEPT !.pc = "spawn", !.prs = open_prs, !.fetches = @ + 1,
                               !.units = [ i \in 1..Len(open_prs) |-> "pending" ] ]
  /\ UNCHANGED <<now, records, unlocked_prs, open_prs, checks, pc, local, retry, installation_clients, tokens, user_config>>

(* update_prs_in_batches: the units of the next chunk are spawned. *)
spawn_chunk ==
  /\ refresh.pc = "spawn"
  /\ LET last == chunk_end(refresh.next, refresh.max_concurrent_requests,
                           Len(refresh.prs))
     IN  refresh' = [ refresh EXCEPT
                        !.pc = "join", !.last = last, !.join = refresh.next,
                        !.units = [ i \in DOMAIN refresh.units |->
                                      IF i \in refresh.next..last THEN "running"
                                      ELSE refresh.units[i] ] ]
  /\ UNCHANGED <<now, records, unlocked_prs, open_prs, checks, pc, local, retry, installation_clients, tokens, user_config>>

(* A spawned unit: the conclusion from the freeze record and the PR's base *)
(* branch, then update_pr_with_retry.  A lost unit may or may not have     *)
(* created its check run first.                                            *)
unit_run(i) ==
  /\ refresh.pc = "join"
  /\ i \in DOMAIN refresh.units
  /\ refresh.units[i] = "running"
  /\ \E outcome \in UnitOutcomes, wrote \in BOOLEAN :
       /\ outcome = "ok" => wrote
       /\ outcome = "err" => ~ wrote
       /\ refresh' = [ refresh EXCEPT
                         !.units[i] = outcome,
                         !.calls = IF outcome = "panic" /\ ~ wrote THEN @ ELSE @ + 1 ]
       /\ checks' =
            IF wrote
              THEN [ checks EXCEPT ![<<refresh.target, refresh.prs[i].number>>] =
                       [ conclusion |-> batch_conclusion(refresh.freeze_record, refresh.prs[i]),
                         output     |-> create_check_run_output(refresh.freeze_record) ] ]
              ELSE checks
  /\ UNCHANGED <<now, records, unlocked_prs, open_prs, pc, local, retry, installation_clients, tokens, user_config>>

(* A join loop that gives the pass up with the error of the first unit     *)
(* that failed.                                                            *)
join_handle_fail_fast ==
  /\ refresh.pc = "join"
  /\ refresh.join <= refresh.last
  /\ refresh.units[refresh.join] \in UnitOutcomes
  /\ LET outcome == refresh.units[refresh.join]
     IN  refresh' =
           IF outcome = "ok"
             THEN [ refresh EXCEPT !.successful_updates = @ + 1, !.join = @ + 1 ]
             ELSE [ refresh EXCEPT !.pc = "done", !.result = "err" ]
  /\ UNCHANGED <<now, records, unlocked_prs, open_prs, checks, pc, local, retry, installation_clients, tokens, user_config>>

(* handle.await of the next handle of the chunk. *)
join_handle ==
  /\ refresh.pc = "join"
  /\ refresh.join <= refresh.last
  /\ refresh.units[refresh.join] \in UnitOutcomes
  /\ LET outcome == refresh.units[refresh.join]
     IN  refresh' = [ refresh EXCEPT
                        !.successful_updates = successful_after(@, outcome),
                        !.failed_updates = failed_after(@, outcome),
                        !.errors = errors_after(@, outcome, refresh.prs[refresh.join].number),
                        !.join = @ + 1 ]
  /\ UNCHANGED <<now, records, unlocked_prs, open_prs, checks, pc, local, retry, installation_clients, tokens, user_config>>

(* The end of a chunk: a full chunk is followed by the batch delay. *)
chunk_done ==
  /\ refresh.pc = "join"
  /\ refresh.join > refresh.last
  /\ refresh' =
       IF refresh.last - refresh.next + 1 = refresh.max_concurrent_requests
         THEN [ refresh EXCEPT !.pc = "sleep", !.next = refresh.last + 1 ]
         ELSE IF refresh.last < Len(refresh.prs)
                THEN [ refresh EXCEPT !.pc = "spawn", !.next = refresh.last + 1 ]
                ELSE RefreshResult(refresh)
  /\ UNCHANGED <<now, records, unlocked_prs, open_prs, checks, pc, local, retry, installation_clients, tokens, user_config>>

batch_sleep ==
  /\ refresh.pc = "sleep"
  /\ refresh' =
       IF refresh.next > Len(refresh.prs)
         THEN RefreshResult([ refresh EXCEPT !.sleeps = @ + 1 ])
         ELSE [ refresh EXCEPT !.pc = "spawn", !.sleeps = @ + 1 ]
  /\ UNCHANGED <<now, records, unlocked_prs, open_prs, checks, pc, local, retry, installation_clients, tokens, user_config>>

NextRefresh ==
  \/ refresh_fetch
  \/ spawn_chunk
  \/ \E i \in 1..MaxPrs : unit_run(i)
  \/ join_handle
  \/ chunk_done
  \/ batch_sleep

SpecRefresh ==
  InitRefresh /\ [][NextRefresh]_vars

-----------------------------------------------------------------------------
(* update_pr_with_retry: one status-create call per attempt, a sleep of    *)
(* base_retry_delay_ms * 2^(attempt - 1) before each retry.                *)

BaseDelays ==
  { 1, default_base_retry_delay_ms }

RetryInputs ==
  { f \in FreezeInputs : f = None \/ Unwrap(f).branch = None }

(* A backoff that does not grow. *)
retry_delay_flat(base_retry_delay_ms, attempt) ==
  base_retry_delay_ms

retry_delay(base_retry_delay_ms, attempt) ==
  base_retry_delay_ms * 2^(attempt - 1)

RetryStart(freeze_record, max_retries, base_retry_delay_ms) ==
  [ pc |-> "call", target |-> RefreshTarget, pr |-> PrByNumber(6),
    freeze_record |-> freeze_record, max_retries |-> max_retries,
    base_retry_delay_ms |-> base_retry_delay_ms, attempt |-> 0,
    history |-> <<>>, sleeps |-> <<>>, result |-> "none" ]

InitRetry ==
  /\ now = 0
  /\ \E f \in RetryInputs, m \in 0..MaxRetriesBound, b \in BaseDelays :
       /\ records = IF IsSome(f) THEN { Unwrap(f) } ELSE {}
       /\ retry = RetryStart(f, m, b)
  /\ unlocked_prs = {}
  /\ open_prs = << PrByNumber(6) >>
  /\ checks = [ k \in Targets \X PrNumbers |-> NoCheck ]
  /\ pc = [ t \in Threads |-> "idle" ]
  /\ installation_clients = NoClients
  /\ tokens = 0
  /\ user_config = None
  /\ local = [ t \in Threads |-> IdleLocal ]
  /\ refresh = RefreshIdle

(* A loop that gives up one attempt early. *)
update_pr_with_retry_call_one_short ==
  /\ retry.pc = "call"
  /\ retry.attempt <= retry.max_retries
  /\ \E ok \in BOOLEAN :
       IF ok
         THEN /\ retry' = [ retry EXCEPT !.pc = "done", !.result = "ok",
                                         !.history = Append(@, TRUE) ]
              /\ checks' = [ checks EXCEPT ![<<retry.target, retry.pr.number>>] =
                   [ conclusion |-> batch_conclusion(retry.freeze_record, retry.pr),
                     output     |-> create_check_run_output(retry.freeze_record) ] ]
         ELSE /\ retry' =
                   IF retry.attempt + 1 < retry.max_retries
                     THEN [ retry EXCEPT !.pc = "sleep", !.attempt = @ + 1,
                                         !.history = Append(@, FALSE) ]
                     ELSE [ retry EXCEPT !.pc = "done", !.result = "err",
                                         !.attempt = @ + 1,
                                         !.history = Append(@, FALSE) ]
              /\ checks' = checks
  /\ UNCHANGED <<now, records, unlocked_prs, open_prs, pc, local, refresh, installation_clients, tokens, user_config>>

(* One turn of the loop: create_check_run succeeds and the function        *)
(* returns Ok, or it fails and the attempt is counted; past max_retries    *)
(* the error is returned.                                                  *)
update_pr_with_retry_call ==
  /\ retry.pc = "call"
  /\ retry.attempt <= retry.max_retries
  /\ \E ok \in BOOLEAN :
       IF ok
         THEN /\ retry' = [ retry EXCEPT !.pc = "done", !.result = "ok",
                                         !.history = Append(@, TRUE) ]
              /\ checks' = [ checks EXCEPT ![<<retry.target, retry.pr.number>>] =
                   [ conclusion |-> batch_conclusion(retry.freeze_record, retry.pr),
                     output     |-> create_check_run_output(retry.freeze_record) ] ]
         ELSE /\ retry' =
                   IF retry.attempt + 1 <= retry.max_retries
                     THEN [ retry EXCEPT !.pc = "sleep", !.attempt = @ + 1,
                                         !.history = Append(@, FALSE) ]
                     ELSE [ retry EXCEPT !.pc = "done", !.result = "err",
                                         !.attempt = @ + 1,
                                         !.history = Append(@, FALSE) ]
              /\ checks' = checks
  /\ UNCHANGED <<now, records, unlocked_prs, open_prs, pc, local, refresh, installation_clients, tokens, user_config>>

(* tokio::time::sleep(delay) before the next attempt. *)
update_pr_with_retry_sleep ==
  /\ retry.pc = "sleep"
  /\ retry' = [ retry EXCEPT
                  !.pc = "call",
                  !.sleeps = Append(@, retry_delay(retry.base_retry_delay_ms,
                                                   retry.attempt)) ]
  /\ UNCHANGED <<now, records, unlocked_prs, open_prs, checks, pc, local, refresh, installation_clients, tokens, user_config>>

NextRetry ==
  \/ update_pr_with_retry_call
  \/ update_pr_with_retry_sleep

SpecRetry ==
  InitRetry /\ [][NextRetry]_vars

-----------------------------------------------------------------------------
(* Intervals [started_at, expires_at), a missing expires_at being +infinity *)

Horizon ==
  MaxTime + DEFAULT_FREEZE_DURATION + MaxDuration + 1

CoversInstant(r, x) ==
  /\ r.started_at <= x
  /\ (r.expires_at = None \/ x < Unwrap(r.expires_at))

IntervalsIntersect(a, b) ==
  \E x \in 0..Horizon : CoversInstant(a, x) /\ CoversInstant(b, x)

SameTarget(a, b) ==
  /\ a.installation_id = b.installation_id
  /\ a.repository = b.repository

(* The Active records of the handler's repository other than its own. *)
ExistingActive(t) ==
  { x \in list(records, local[t].target[1], local[t].target[2], TRUE) :
      x.id # local[t].record.id }

RegistryOf(target) ==
  { u \in unlocked_prs : u.installation_id = target[1] /\ u.repository = target[2] }

-----------------------------------------------------------------------------
(* C1: with exactly one Active record on the repository, the creation of a *)
(* new Active record returns the overlap error if and only if the two      *)
(* intervals intersect, and stores the record otherwise.                   *)
C1_CreateErrsIffIntersect ==
  \A t \in Requests :
    (local[t].op = "freeze" /\ Cardinality(ExistingActive(t)) = 1) =>
      \A x \in ExistingActive(t) :
        /\ (local[t].outcome = "err_overlap") <=> IntervalsIntersect(x, local[t].record)
        /\ (local[t].outcome = "ok") => local[t].record \in records

(* C1, the degenerate request: a new record with an empty interval is      *)
(* rejected against an Active record it cannot intersect.                  *)
C1_EmptyIntervalRejected ==
  \E t \in Requests :
    /\ local[t].op = "freeze"
    /\ local[t].outcome = "err_overlap"
    /\ local[t].record.expires_at = Some(local[t].record.started_at)
    /\ Cardinality(ExistingActive(t)) = 1
    /\ \A x \in ExistingActive(t) : ~ IntervalsIntersect(x, local[t].record)

(* C2: handlers and ticks running one at a time, no two Active records of  *)
(* the same (installation, repository) have intersecting intervals.        *)
C2_NoOverlappingActive ==
  \A a, b \in records :
    (a.id # b.id /\ SameTarget(a, b) /\ a.status = "active" /\ b.status = "active")
      => ~ IntervalsIntersect(a, b)

(* C3: the INSERT of FreezeRecord::create stores the record whatever the   *)
(* store holds by then: the overlap query is not repeated, so a record     *)
(* that passed the query before a concurrent insert is stored next to it.  *)
C3_InsertDoesNotRecheck ==
  [][ \A t \in Requests :
        (pc[t] = "create_insert" /\ pc'[t] # "create_insert")
          => local[t].record \in records' ]_vars

(* C3, the race: both handlers passed the overlap query, both inserted,    *)
(* and their two Active records intersect on the same repository.          *)
C3_BothCreatesSucceed ==
  /\ pc["t1"] = "freeze_refresh"
  /\ pc["t2"] = "freeze_refresh"
  /\ local["t1"].record \in records
  /\ local["t2"].record \in records
  /\ local["t1"].record.id # local["t2"].record.id
  /\ SameTarget(local["t1"].record, local["t2"].record)
  /\ IntervalsIntersect(local["t1"].record, local["t2"].record)

(* C4: a stored status changes only Scheduled -> Active or Active ->       *)
(* Ended, and a record that is Ended is never written again.               *)
C4_StatusLifecycle ==
  [][ \A r \in records : \A r2 \in records' :
        r2.id = r.id =>
          /\ (r2.status # r.status =>
                <<r.status, r2.status>> \in
                   { <<"scheduled", "active">>, <<"active", "ended">> })
          /\ (r.status = "ended" => r2 = r) ]_vars

(* C6: when unfreeze has succeeded, the Unlock Registry holds no record of *)
(* that (installation, repository).                                        *)
C6_UnfreezeClearsRegistry ==
  \A t \in Requests :
    (pc[t] = "notify" /\ local[t].op = "unfreeze" /\ local[t].outcome = "ok")
      => RegistryOf(local[t].target) = {}

(* C7: at the step that makes a record Active (its creation by freeze or   *)
(* its activation by the scheduler), the Unlock Registry of its repository *)
(* is empty.                                                               *)
C7_ActiveStartsWithEmptyRegistry ==
  [][ \A r2 \in records' :
        ( /\ r2.status = "active"
          /\ ~ \E r \in records : r.id = r2.id /\ r.status = "active" )
          => { u \in unlocked_prs' : /\ u.installation_id = r2.installation_id
                                     /\ u.repository = r2.repository } = {} ]_vars

(* The pass returned a RefreshResult and every unit ended Ok. *)
PassComplete ==
  /\ refresh.pc = "done"
  /\ refresh.result = "ok"
  /\ \A i \in DOMAIN refresh.units : refresh.units[i] = "ok"

CheckOf(i) ==
  checks[<<refresh.target, refresh.prs[i].number>>]

(* C5: after a bulk refresh under an unscoped Active freeze, an unlocked   *)
(* PR carries the passing status and every other open PR the failing one.  *)
C5_BulkRefreshHonoursUnlocks ==
  ( /\ PassComplete
    /\ IsSome(refresh.freeze_record)
    /\ Unwrap(refresh.freeze_record).branch = None
    /\ is_frozen(records, refresh.target[1], refresh.target[2]) )
    => \A i \in DOMAIN refresh.prs :
         CheckOf(i).conclusion =
           IF is_pr_unlocked(unlocked_prs, refresh.target[1], refresh.target[2],
                             refresh.prs[i].number)
             THEN "success" ELSE "failure"

(* C8: a returned RefreshResult has successful_updates + failed_updates =  *)
(* N = total_prs, join errors included; with no open PR every counter is 0 *)
(* and no status-create call was made.                                     *)
C8_CountersAddUp ==
  (refresh.pc = "done" /\ refresh.result = "ok") =>
    /\ refresh.successful_updates + refresh.failed_updates = Len(open_prs)
    /\ refresh.total_prs = Len(open_prs)
    /\ Len(open_prs) = 0 =>
         /\ refresh.successful_updates = 0
         /\ refresh.failed_updates = 0
         /\ refresh.errors = <<>>
         /\ refresh.calls = 0
         /\ \A k \in DOMAIN checks : checks[k] = NoCheck

(* C8, a mixed pass: one unit Ok, one Err, one lost to a join error. *)
C8_MixedOutcomes ==
  /\ refresh.pc = "done"
  /\ refresh.result = "ok"
  /\ Len(open_prs) = 3
  /\ refresh.units = << "ok", "err", "panic" >>
  /\ refresh.successful_updates = 1
  /\ refresh.failed_updates = 2
  /\ refresh.total_prs = 3

(* C9: after a bulk refresh under a freeze scoped to a branch, with no     *)
(* unlock recorded, a PR carries the failing status exactly when its base  *)
(* branch is that branch.                                                  *)
C9_BranchScopedRefresh ==
  ( /\ PassComplete
    /\ IsSome(refresh.freeze_record)
    /\ IsSome(Unwrap(refresh.freeze_record).branch)
    /\ unlocked_prs = {} )
    => \A i \in DOMAIN refresh.prs :
         (CheckOf(i).conclusion = "failure")
           <=> (refresh.prs[i].base_ref = Unwrap(Unwrap(refresh.freeze_record).branch))

(* C9, the example: bases main, main, dev under a freeze scoped to main. *)
C9_MainMainDev ==
  /\ PassComplete
  /\ IsSome(refresh.freeze_record)
  /\ Unwrap(refresh.freeze_record).branch = Some("main")
  /\ unlocked_prs = {}
  /\ Len(refresh.prs) = 3
  /\ << refresh.prs[1].base_ref, refresh.prs[2].base_ref, refresh.prs[3].base_ref >>
       = << "main", "main", "dev" >>
  /\ << CheckOf(1).conclusion, CheckOf(2).conclusion, CheckOf(3).conclusion >>
       = << "failure", "failure", "success" >>

(* C10: with max_retries >= 2, a status-create call that fails twice and *)
(* then succeeds makes update_pr_with_retry return success, after a sleep  *)
(* of at least base_retry_delay_ms before the second attempt and of at     *)
(* least twice that before the third.                                      *)
C10_RetryBackoff ==
  (retry.pc = "done" /\ retry.max_retries >= 2
     /\ retry.history = << FALSE, FALSE, TRUE >>) =>
    /\ retry.result = "ok"
    /\ Len(retry.sleeps) = 2
    /\ retry.sleeps[1] >= retry.base_retry_delay_ms
    /\ retry.sleeps[2] >= 2 * retry.base_retry_delay_ms

(* C10, the run: two failures, then the success, under the default base. *)
C10_FailFailSucceed ==
  /\ retry.pc = "done"
  /\ retry.max_retries >= 2
  /\ retry.base_retry_delay_ms = default_base_retry_delay_ms
  /\ retry.history = << FALSE, FALSE, TRUE >>
  /\ retry.result = "ok"
  /\ retry.sleeps = << default_base_retry_delay_ms, 2 * default_base_retry_delay_ms >>

-----------------------------------------------------------------------------
(* The scheduler against the clock.  Under SpecTick one unit of the clock  *)
(* is one period of the worker's interval, and the interval fires at every *)
(* instant: while the worker is idle the clock does not move past a due    *)
(* Scheduled record, and the store calls of a tick take no time.  The one  *)
(* await of a tick that takes time is the refresh of the repository that   *)
(* was just activated (GitHub calls, retries with backoff, batch delays),  *)
(* which the loop awaits before it goes on to the next due record.         *)

TickPeriod ==
  1

ScheduledDurations ==
  { Some(TickPeriod) }

tick ==
  /\ InFlight = {}
  /\ \/ pc[Scheduler] = "tick_refresh"
     \/ /\ pc[Scheduler] = "idle"
        /\ get_scheduled_freezes_to_activate(records, now) = {}
  /\ Advance

NextTick ==
  \/ ScheduleCommands("t1", Targets, ScheduledDurations)
  \/ create_insert("t1")
  \/ notify("t1")
  \/ SchedulerStep
  \/ tick

SpecTick ==
  Init /\ [][NextTick]_vars

(* The instant from which a scheduled record is due: its start, or its     *)
(* creation when it was scheduled with a start already past.               *)
DueFrom(r) ==
  IF r.started_at >= r.created_at THEN r.started_at ELSE r.created_at

(* C11: a freeze scheduled for T is not Active before T, and with the      *)
(* worker ticking every period and every store call succeeding it is no    *)
(* longer Scheduled from T plus one tick period on.                        *)
C11_ActiveWithinOneTick ==
  \A r \in records :
    /\ r.status = "active" => now >= r.started_at
    /\ r.status = "scheduled" => now < DueFrom(r) + TickPeriod

-----------------------------------------------------------------------------
(* A repository left to the clock and the worker: freezes are started and  *)
(* scheduled, nobody unfreezes.  Every task that can take a step           *)
(* eventually takes it (the tokio runtime polls every ready task, the      *)
(* worker's interval keeps firing), and time passes.                       *)

NextLift ==
  \/ FreezeCommands("t1", SharedTargets, SharedDurations)
  \/ ScheduleCommands("t1", SharedTargets, SharedDurations)
  \/ SchedulerStep
  \/ Advance

SpecLift ==
  /\ Init
  /\ [][NextLift]_vars
  /\ WF_vars(create_insert("t1") \/ handle_freeze_refresh("t1") \/ notify("t1"))
  /\ WF_vars(SchedulerStep)
  /\ WF_vars(Advance)

(* An Active record of the pair whose expires_at has passed. *)
EffectivelyExpired(target) ==
  \E r \in records :
    /\ r.installation_id = target[1]
    /\ r.repository = target[2]
    /\ r.status = "active"
    /\ IsSome(r.expires_at)
    /\ now >= Unwrap(r.expires_at)

(* Every open PR of the repository carries a passing check run. *)
OpenPrsPassing(target) ==
  \A p \in Range(open_prs) : checks[<<target, p.number>>].conclusion = "success"

(* C12: once now >= expires_at of an Active freeze and nobody unfreezes,   *)
(* the repository eventually stops being reported frozen and its open PRs  *)
(* eventually carry a passing status.                                      *)
C12_FreezeLiftsOnSchedule ==
  \A target \in SharedTargets :
    EffectivelyExpired(target) ~>
      (~ is_frozen(records, target[1], target[2]) /\ OpenPrsPassing(target))

-----------------------------------------------------------------------------
(* One /freeze handler and one /unfreeze handler race on one repository. *)

NextPass ==
  \/ FreezeCommands("t1", SharedTargets, SharedDurations)
  \/ UnfreezeCommands("t2", SharedTargets, Actors)
  \/ notify("t2")
  \/ Advance

SpecPass ==
  Init /\ [][NextPass]_vars

(* The determination the store gives for a PR of the pair (no branch scope *)
(* and no unlock in play): failing iff an Active record is stored.         *)
StoreConclusion(recs, target) ==
  IF is_frozen(recs, target[1], target[2]) THEN "failure" ELSE "success"

(* C13: every status a pass writes is the determination of the store as it *)
(* is when the status is written, so after a freeze and an unfreeze have   *)
(* raced the last status of each open PR agrees with the final store.      *)
C13_PassUsesCurrentStore ==
  [][ \A k \in DOMAIN checks :
        checks'[k] # checks[k] =>
          checks'[k].conclusion = StoreConclusion(records', k[1]) ]_vars

-----------------------------------------------------------------------------
(* One repository, one handler or one tick at a time. *)

(* Who unfreezes: somebody other than the initiator of the freeze. *)
Enders ==
  Actors \ Initiators

NextSolo ==
  \/ Solo("t1") /\ FreezeCommands("t1", SharedTargets, SharedDurations)
  \/ Solo("t1") /\ ScheduleCommands("t1", SharedTargets, SharedDurations)
  \/ Solo("t1") /\ UnfreezeCommands("t1", SharedTargets, Enders)
  \/ Solo(Scheduler) /\ SchedulerStep
  \/ Advance

SpecSolo ==
  Init /\ [][NextSolo]_vars

(* The stored row with this id has this status. *)
StoredWithStatus(recs, id, status) ==
  \E x \in recs : x.id = id /\ x.status = status

(* C14: whatever the pass of a freeze, an unfreeze or an activation does   *)
(* (listing error, any number of per-PR failures), the step leaves the     *)
(* freeze records as they were: the created record is stored Active and    *)
(* freeze returns success, the ended records stay Ended (none is Active)   *)
(* and unfreeze returns success, the activated record stays Active.        *)
C14_PassFailureKeepsMutation ==
  [][ /\ (pc["t1"] = "freeze_refresh" /\ pc'["t1"] # "freeze_refresh") =>
            /\ records' = records
            /\ StoredWithStatus(records', local["t1"].record.id, "active")
            /\ local'["t1"].outcome = "ok"
      /\ (pc["t1"] = "unfreeze_refresh" /\ pc'["t1"] # "unfreeze_refresh") =>
            /\ records' = records
            /\ ~ is_frozen(records', local["t1"].target[1], local["t1"].target[2])
            /\ \E x \in records' : x.status = "ended" /\ x.ended_by = Some(local["t1"].actor)
            /\ local'["t1"].outcome = "ok"
      /\ (pc[Scheduler] = "tick_refresh" /\ pc'[Scheduler] # "tick_refresh") =>
            /\ records' = records
            /\ StoredWithStatus(records', local[Scheduler].record.id, "active")
    ]_vars

(* /freeze has returned success, its record is stored Active, and its pass *)
(* wrote nothing on the open PR.                                           *)
C14_FreezeKeptAfterFailedPass ==
  /\ pc["t1"] = "notify"
  /\ local["t1"].op = "freeze"
  /\ local["t1"].outcome = "ok"
  /\ StoredWithStatus(records, local["t1"].record.id, "active")
  /\ \A p \in Range(open_prs) : checks[<<local["t1"].target, p.number>>] = NoCheck

(* The ids of the Active records of the pair. *)
ActiveIds(recs, target) ==
  { x.id : x \in { y \in recs : /\ y.installation_id = target[1]
                                /\ y.repository = target[2]
                                /\ y.status = "active" } }

(* C15: a handle_unfreeze that runs alone and returns success has listed   *)
(* exactly the Active records of the pair, has turned each of them into    *)
(* Ended with ended_by = actor and ended_at set (touching no other         *)
(* record), leaves no Active record of the pair (is_frozen is false), and  *)
(* returns only through a pass that was handed no freeze.                  *)
C15_UnfreezeEndsEveryActive ==
  [][ LET u == local["t1"]  v == local'["t1"]
      IN  /\ pc'["t1"] = "unfreeze_update" =>
                ActiveIds(records', v.target) = { x.id : x \in Range(v.todo) }
          /\ (pc["t1"] = "unfreeze_update" /\ v # u) =>
                /\ \E x \in records' :
                      /\ x.id = Head(u.todo).id
                      /\ x.status = "ended"
                      /\ x.ended_by = Some(u.actor)
                      /\ x.ended_at = Some(now)
                /\ \A x \in records : x.id # Head(u.todo).id => x \in records'
          /\ (v.op = "unfreeze" /\ v.outcome = "ok") =>
                /\ ~ is_frozen(records', v.target[1], v.target[2])
                /\ u.outcome # "ok" =>
                      /\ pc["t1"] = "unfreeze_refresh"
                      /\ \E o \in PassOutcomes :
                            checks' = refresh_repository_prs(u.target, None, o[1], o[2])
    ]_vars

(* /unfreeze by bob has returned success: two records of the pair were     *)
(* Active, both are Ended by bob, and the open PR passes.                  *)
C15_TwoActiveEnded ==
  /\ pc["t1"] = "notify"
  /\ local["t1"].op = "unfreeze"
  /\ local["t1"].outcome = "ok"
  /\ Cardinality({ x \in records : x.status = "ended"
                                    /\ x.ended_by = Some(local["t1"].actor)
                                    /\ x.ended_at = Some(now) }) = 2
  /\ \A p \in Range(open_prs) :
       checks[<<local["t1"].target, p.number>>] =
         [ conclusion |-> "success", output |-> "not_frozen" ]

(* C16: an unfreeze of a pair with no Active record goes straight to the   *)
(* error outcome and returns; neither step changes a freeze record, an     *)
(* unlock record or a check run (no pass runs).                            *)
C16_UnfreezeWithoutActiveFails ==
  [][ LET u == local["t1"]  v == local'["t1"]
      IN  /\ (pc["t1"] = "idle" /\ v.op = "unfreeze"
                /\ ActiveIds(records, v.target) = {}) =>
                /\ pc'["t1"] = "notify"
                /\ v.outcome = "err_not_found"
                /\ UNCHANGED <<records, unlocked_prs, checks, installation_clients, tokens, user_config>>
          /\ (u.op = "unfreeze" /\ u.outcome = "err_not_found" /\ v # u) =>
                /\ pc'["t1"] = "idle"
                /\ UNCHANGED <<records, unlocked_prs, checks, installation_clients, tokens, user_config>>
    ]_vars

(* /unfreeze has failed on a repository that has records, none of them     *)
(* Active, while the unlock registry is not empty.                         *)
C16_NothingActiveToEnd ==
  /\ pc["t1"] = "notify"
  /\ local["t1"].op = "unfreeze"
  /\ local["t1"].outcome = "err_not_found"
  /\ list(records, local["t1"].target[1], local["t1"].target[2], FALSE) # {}
  /\ unlocked_prs # {}

(* C17: a freeze (or a schedule) whose record overlaps an Active record of *)
(* the pair goes straight to the overlap error and returns; neither step   *)
(* changes the stored records or a check run (no INSERT, no pass).         *)
C17_OverlapRejectedWithoutWrite ==
  [][ LET u == local["t1"]  v == local'["t1"]
      IN  /\ (pc["t1"] = "idle" /\ v.op \in { "freeze", "schedule" }
                /\ overlapping(records, v.record) > 0) =>
                /\ pc'["t1"] = "notify"
                /\ v.outcome = "err_overlap"
                /\ UNCHANGED <<records, checks, installation_clients, tokens, user_config>>
          /\ (u.outcome = "err_overlap" /\ v # u) =>
                /\ pc'["t1"] = "idle"
                /\ UNCHANGED <<records, checks, installation_clients, tokens, user_config>>
    ]_vars

(* /freeze has been rejected: an Active record of the pair is stored, the  *)
(* new record is not.                                                      *)
C17_FreezeRejected ==
  /\ pc["t1"] = "notify"
  /\ local["t1"].op = "freeze"
  /\ local["t1"].outcome = "err_overlap"
  /\ ActiveIds(records, local["t1"].target) # {}
  /\ \A x \in records : x.id # local["t1"].record.id

(* C18: in every reachable state, a stored freeze record has ended_at set  *)
(* if and only if its status is Ended.                                     *)
C18_EndedAtIffEnded ==
  \A r \in records : IsSome(r.ended_at) <=> r.status = "ended"

(* An activated schedule (Active, ended_at unset) is stored next to a      *)
(* record that was ended (ended_at set).                                   *)
C18_EndedNextToActivated ==
  \E r, q \in records :
    /\ r.status = "ended" /\ IsSome(r.ended_at)
    /\ q.status = "active" /\ q.ended_at = None
    /\ pc[Scheduler] = "tick_refresh" /\ local[Scheduler].record.id = q.id

-----------------------------------------------------------------------------
(* The store on its own: rows are created and their status is updated      *)
(* through FreezeRecord's own functions, and is_frozen is asked about a    *)
(* pair.  The pairs share a repository name or an installation.            *)

StorePairs ==
  { <<1, "o/a">>, <<2, "o/a">>, <<1, "o/b">> }

StoreStatuses ==
  { "active", "expired", "ended" }

(* FreezeRecord::create of a record built by new or new_scheduled. *)
store_create(target, scheduled) ==
  /\ pc["t1"] = "idle"
  /\ Cardinality(records) < MaxRecords
  /\ LET record == IF scheduled
                     THEN new_scheduled(FreshId, target[2], target[1], now,
                                        Some(now + MaxDuration), "alice", now)
                     ELSE new(FreshId, target[2], target[1], now,
                              Some(now + MaxDuration), "alice", now)
     IN  /\ overlapping(records, record) = 0
         /\ records' = insert(records, record)
  /\ UNCHANGED <<now, unlocked_prs, open_prs, checks, pc, local, refresh, retry, installation_clients, tokens, user_config>>

(* FreezeRecord::update_status of a stored row. *)
store_update_status(id, status) ==
  /\ pc["t1"] = "idle"
  /\ records' = update_status(records, id, status,
                              IF status = "ended" THEN Some("bob") ELSE None, now)
  /\ UNCHANGED <<now, unlocked_prs, open_prs, checks, pc, local, refresh, retry, installation_clients, tokens, user_config>>

(* FreezeRecord::is_frozen: the answer is in the caller's hands. *)
store_is_frozen(target) ==
  /\ pc["t1"] = "idle"
  /\ pc' = [ pc EXCEPT !["t1"] = "is_frozen" ]
  /\ local' = [ local EXCEPT !["t1"] =
         [ IdleLocal EXCEPT !.op = "is_frozen", !.target = target,
                            !.outcome = IF is_frozen(records, target[1], target[2])
                                          THEN "true" ELSE "false" ] ]
  /\ UNCHANGED <<now, records, unlocked_prs, open_prs, checks, refresh, retry, installation_clients, tokens, user_config>>

store_return ==
  /\ pc["t1"] = "is_frozen"
  /\ pc' = [ pc EXCEPT !["t1"] = "idle" ]
  /\ local' = [ local EXCEPT !["t1"] = IdleLocal ]
  /\ UNCHANGED <<now, records, unlocked_prs, open_prs, checks, refresh, retry, installation_clients, tokens, user_config>>

NextStore ==
  \/ \E target \in StorePairs, scheduled \in BOOLEAN : store_create(target, scheduled)
  \/ \E r \in records, status \in StoreStatuses : store_update_status(r.id, status)
  \/ \E target \in StorePairs : store_is_frozen(target)
  \/ store_return
  \/ Advance

SpecStore ==
  Init /\ [][NextStore]_vars

(* C19: is_frozen answers true exactly when a stored record of that very   *)
(* (installation, repository) has status Active, whatever the other        *)
(* statuses, the other pairs and the time windows are.                     *)
C19_FrozenIffActiveRecord ==
  pc["t1"] = "is_frozen" =>
    (local["t1"].outcome = "true" <=>
       \E r \in records :
          /\ <<r.installation_id, r.repository>> = local["t1"].target
          /\ r.status = "active")

(* is_frozen has answered false for a pair that has an Expired record,     *)
(* while the same repository is Active under another installation.         *)
C19_OtherInstallationActive ==
  /\ pc["t1"] = "is_frozen"
  /\ local["t1"].outcome = "false"
  /\ \E r \in records :
        /\ <<r.installation_id, r.repository>> = local["t1"].target
        /\ r.status = "expired"
  /\ \E r \in records :
        /\ r.repository = local["t1"].target[2]
        /\ r.installation_id # local["t1"].target[1]
        /\ r.status = "active"
        /\ now >= Unwrap(r.expires_at)

-----------------------------------------------------------------------------
(* The worker and its failures.  Scheduled rows are put in the store while *)
(* the worker waits for its next tick (one of the repositories has a name  *)
(* that does not split into owner and name); in a tick the query, any      *)
(* update_status and any refresh may fail.                                 *)

WorkerPairs ==
  { <<1, "o/a">>, <<1, "o/a/b">> }

WorkerStep ==
  \/ SchedulerStep
  \/ get_scheduled_freezes_to_activate_err
  \/ activate_scheduled_freeze_err
  \/ activate_scheduled_freeze_invalid

NextWorker ==
  \/ \E target \in WorkerPairs : pc[Scheduler] = "idle" /\ store_create(target, TRUE)
  \/ WorkerStep
  \/ pc[Scheduler] = "idle" /\ Advance

SpecWorker ==
  Init /\ [][NextWorker]_vars

InTick(p) ==
  p \in { "tick_activate", "tick_refresh" }

(* C20: within a tick no due record is dropped: a due record that is still *)
(* Scheduled is either still on the list or is one whose activation        *)
(* failed; every listed record gets its own attempt, whatever happened to  *)
(* the ones before it; the tick ends only when the list is exhausted; and  *)
(* after a failed query the worker is back at the top of its loop, where   *)
(* the next tick finds the due records.                                    *)
C20_FailureSkipsNoDueRecord ==
  [][ LET u == local[Scheduler]  v == local'[Scheduler]
      IN  /\ InTick(pc'[Scheduler]) =>
                \A r \in get_scheduled_freezes_to_activate(records', now') :
                   r.id \in { x.id : x \in Range(v.todo) } \cup v.failed
          /\ (pc[Scheduler] = "tick_activate" /\ v # u) =>
                /\ u.todo # <<>>
                /\ v.todo = Tail(u.todo)
                /\ \/ Head(u.todo).id \in v.failed
                   \/ StoredWithStatus(records', Head(u.todo).id, "active")
          /\ (InTick(pc[Scheduler]) /\ pc'[Scheduler] = "idle") =>
                /\ v.todo = <<>>
                /\ get_scheduled_freezes_to_activate(records', now')
                     \subseteq { r \in records' : r.id \in u.failed \cup v.failed }
          /\ v.outcome = "err_query" => pc'[Scheduler] = "idle"
          /\ (u.outcome = "err_query"
                /\ get_scheduled_freezes_to_activate(records, now) # {}) =>
                ENABLED check_and_activate_scheduled_freezes
    ]_vars

(* A tick has activated the second of two due records after the           *)
(* activation of the first one failed.                                     *)
C20_SecondActivatedAfterFailure ==
  /\ pc[Scheduler] = "tick_refresh"
  /\ local[Scheduler].failed # {}
  /\ StoredWithStatus(records, local[Scheduler].record.id, "active")
  /\ \E r \in records : r.id \in local[Scheduler].failed /\ r.status = "scheduled"

-----------------------------------------------------------------------------
(* The synchronizer's error paths *)

(* C21: a refresh_repository_prs whose listing of the open PRs fails       *)
(* returns the error after that one listing call: no unit was spawned, no  *)
(* status-create call was made and no check run was written.               *)
C21_FailedListingAbortsPass ==
  (refresh.pc = "done" /\ refresh.result = "err") =>
    /\ refresh.fetches = 1
    /\ refresh.calls = 0
    /\ refresh.units = <<>>
    /\ refresh.total_prs = 0
    /\ \A k \in DOMAIN checks : checks[k] = NoCheck

(* The listing has failed for a repository with three open PRs under a     *)
(* freeze.                                                                 *)
C21_ListingFailedWithOpenPrs ==
  /\ refresh.pc = "done"
  /\ refresh.result = "err"
  /\ Len(open_prs) = 3
  /\ IsSome(refresh.freeze_record)

(* The units of the pass that ended with this outcome. *)
UnitsEnded(outcome) ==
  { i \in DOMAIN refresh.units : refresh.units[i] = outcome }

(* C22: a pass that got its list of open PRs returns a RefreshResult, not  *)
(* an error, whatever units failed; every unit of the list has run to its  *)
(* end, every unit that was not lost to a join error has made its          *)
(* status-create call, a unit that ended Ok has written its check run, and *)
(* errors has one entry per failed update.                                 *)
C22_FailedUnitIsolated ==
  (refresh.pc = "done" /\ refresh.prs # <<>>) =>
    /\ refresh.result = "ok"
    /\ \A i \in DOMAIN refresh.prs : refresh.units[i] \in UnitOutcomes
    /\ refresh.calls >= Len(refresh.prs) - Cardinality(UnitsEnded("panic"))
    /\ \A i \in UnitsEnded("ok") : CheckOf(i) # NoCheck
    /\ Len(refresh.errors) = refresh.failed_updates
    /\ refresh.failed_updates = Cardinality(UnitsEnded("err") \cup UnitsEnded("panic"))

(* The first unit of three has failed after its retries; its sibling in    *)
(* the chunk and the unit of the next chunk have both written their check  *)
(* runs.                                                                   *)
C22_FirstFailsOthersWrite ==
  /\ refresh.pc = "done"
  /\ refresh.result = "ok"
  /\ refresh.max_concurrent_requests = MaxConcurrent
  /\ refresh.units = << "err", "ok", "ok" >>
  /\ refresh.calls = 3
  /\ CheckOf(1) = NoCheck
  /\ CheckOf(2) # NoCheck
  /\ CheckOf(3) # NoCheck
  /\ refresh.failed_updates = 1
  /\ Len(refresh.errors) = 1

(* The first index of the chunk that holds unit i. *)
ChunkStart(i, size) ==
  ((i - 1) \div size) * size + 1

(* C23: at any moment of a pass at most max_concurrent_requests units are  *)
(* in flight, and while a unit is in flight every unit of the chunks       *)
(* before its own has finished and one batch delay has been slept for each *)
(* of those chunks.                                                        *)
C23_ChunksBoundConcurrency ==
  refresh.pc \in { "spawn", "join", "sleep", "done" } =>
    /\ Cardinality(UnitsEnded("running")) <= refresh.max_concurrent_requests
    /\ \A i \in UnitsEnded("running") :
          /\ \A j \in 1..(ChunkStart(i, refresh.max_concurrent_requests) - 1) :
                refresh.units[j] \in UnitOutcomes
          /\ refresh.join >= ChunkStart(i, refresh.max_concurrent_requests)
          /\ refresh.sleeps = (i - 1) \div refresh.max_concurrent_requests

(* With chunks of two, the third unit is in flight after the two units of  *)
(* the first chunk have ended and the batch delay has been slept.          *)
C23_SecondChunkInFlight ==
  /\ refresh.pc = "join"
  /\ refresh.max_concurrent_requests = MaxConcurrent
  /\ Len(refresh.units) = 3
  /\ refresh.units[1] \in UnitOutcomes
  /\ refresh.units[2] \in UnitOutcomes
  /\ refresh.units[3] = "running"
  /\ refresh.sleeps = 1

-----------------------------------------------------------------------------
(* C24: a unit whose every status-create attempt fails ends after exactly *)
(* max_retries + 1 attempts; it slept base_retry_delay_ms * 2^(k-1) after  *)
(* the k-th failure for k = 1..max_retries and did not sleep after the     *)
(* last one; it returns one error and has written no status.  While it is  *)
(* still running it has slept once per failure but the one just counted.   *)
AllFailed ==
  \A k \in DOMAIN retry.history : retry.history[k] = FALSE

C24_ExhaustedRetries ==
  /\ (retry.pc = "done" /\ AllFailed) =>
       /\ Len(retry.history) = retry.max_retries + 1
       /\ retry.sleeps = [ k \in 1..retry.max_retries |->
                             retry.base_retry_delay_ms * 2^(k - 1) ]
       /\ retry.result = "err"
       /\ checks[<<retry.target, retry.pr.number>>] = NoCheck
  /\ (retry.pc = "done" /\ retry.result = "err") => AllFailed
  /\ Len(retry.history) <= retry.max_retries + 1

(* C24, the run: the default configuration, four failed attempts, sleeps of *)
(* 1000, 2000 and 4000 ms.                                                  *)
C24_FourAttemptsThreeSleeps ==
  /\ retry.pc = "done"
  /\ retry.result = "err"
  /\ retry.max_retries = default_max_retries
  /\ retry.base_retry_delay_ms = default_base_retry_delay_ms
  /\ retry.history = << FALSE, FALSE, FALSE, FALSE >>
  /\ retry.sleeps = << 1000, 2000, 4000 >>

-----------------------------------------------------------------------------
(* The sweep: refresh_all_active_freezes over the Active records of every  *)
(* installation.  The store holds up to MaxRecords + 1 Active records, some *)
(* expired, two of them possibly of one repository name (the same pair, or  *)
(* the name under another installation) and one possibly with a name that   *)
(* does not split into owner and name.                                      *)

SweepPairs ==
  { <<1, "o/a">>, <<2, "o/a">>, <<2, "o/b">>, <<1, "o/a/b">> }

SweepExpiries ==
  { None, Some(1) }

(* SELECT * FROM freeze_records WHERE status = 'active' AND started_at <=   *)
(* now AND (expires_at IS NULL OR expires_at > now).                        *)
get_active_freezes(recs, t) ==
  { x \in recs :
      /\ x.status = "active"
      /\ x.started_at <= t
      /\ (x.expires_at = None \/ Unwrap(x.expires_at) > t) }

SweepStart ==
  [ pc |-> "query", todo |-> <<>>, results |-> <<>>, calls |-> <<>>,
    sleeps |-> 0, result |-> "none" ]

InitSweep ==
  /\ now \in 0..MaxTime
  /\ \E n \in 0..(MaxRecords + 1) :
       \E q \in [ 1..n -> SweepPairs \X SweepExpiries ] :
         records = { [ new(i, q[i][1][2], q[i][1][1], 0, q[i][2], "alice", 0)
                         EXCEPT !.status = "active" ] : i \in 1..n }
  /\ unlocked_prs = {}
  /\ open_prs = << PrByNumber(6) >>
  /\ checks = [ k \in SweepPairs \X PrNumbers |-> NoCheck ]
  /\ pc = [ t \in Threads |-> "idle" ]
  /\ installation_clients = NoClients
  /\ tokens = 0
  /\ user_config = None
  /\ local = [ t \in Threads |-> IdleLocal ]
  /\ refresh = SweepStart
  /\ retry = RetryIdle

(* The RefreshResult of one repository: what refresh_repository_prs        *)
(* returned, or the entry the sweep builds from its error.                 *)
sweep_result(fetched, lost) ==
  IF fetched
    THEN [ total_prs |-> Len(open_prs),
           successful_updates |-> Len(open_prs) - Cardinality(lost),
           failed_updates |-> Cardinality(lost),
           errors |-> [ i \in 1..Cardinality(lost) |-> "error" ] ]
    ELSE [ total_prs |-> 0, successful_updates |-> 0, failed_updates |-> 0,
           errors |-> << "Repository refresh failed" >> ]

(* results.insert(freeze.repository.clone(), result) *)
results_insert(results, repository, result) ==
  (repository :> result) @@ results

(* get_active_freezes: the query fails and so does the sweep, or it returns *)
(* no row and the sweep returns an empty map, or the loop starts.           *)
refresh_all_active_freezes ==
  /\ refresh.pc = "query"
  /\ \/ refresh' = [ refresh EXCEPT !.pc = "done", !.result = "err" ]
     \/ \E q \in by_started_at_asc(get_active_freezes(records, now)) :
          refresh' = IF q = <<>>
                       THEN [ refresh EXCEPT !.pc = "done", !.result = "ok" ]
                       ELSE [ refresh EXCEPT !.pc = "repo", !.todo = q ]
  /\ UNCHANGED <<now, records, unlocked_prs, open_prs, checks, pc, local, retry, installation_clients, tokens, user_config>>

(* One turn of the loop up to its sleep: a name that does not split in two  *)
(* is skipped; refresh_repository_prs returns Ok or Err and either way an   *)
(* entry is inserted under the repository name.                             *)
sweep_repository ==
  /\ refresh.pc = "repo"
  /\ LET freeze == Head(refresh.todo)
         rest   == Tail(refresh.todo)
     IN IF Len(split(freeze.repository)) # 2
          THEN /\ refresh' = [ refresh EXCEPT
                                 !.todo = rest,
                                 !.pc = IF rest = <<>> THEN "done" ELSE "repo",
                                 !.result = IF rest = <<>> THEN "ok" ELSE @ ]
               /\ checks' = checks
          ELSE \E o \in PassOutcomes :
                 /\ checks' = refresh_repository_prs(
                                <<freeze.installation_id, freeze.repository>>,
                                Some(freeze), o[1], o[2])
                 /\ refresh' = [ refresh EXCEPT
                                   !.pc = "sleep",
                                   !.calls = Append(@, <<freeze, o[1]>>),
                                   !.results = results_insert(@, freeze.repository,
                                                 sweep_result(o[1], o[2])) ]
  /\ UNCHANGED <<now, records, unlocked_prs, open_prs, pc, local, retry, installation_clients, tokens, user_config>>

(* tokio::time::sleep(batch_delay_ms) after each repository, then the next  *)
(* freeze or the return of the map.                                         *)
sweep_sleep ==
  /\ refresh.pc = "sleep"
  /\ LET rest == Tail(refresh.todo)
     IN refresh' = [ refresh EXCEPT
                       !.todo = rest,
                       !.sleeps = @ + 1,
                       !.pc = IF rest = <<>> THEN "done" ELSE "repo",
                       !.result = IF rest = <<>> THEN "ok" ELSE @ ]
  /\ UNCHANGED <<now, records, unlocked_prs, open_prs, checks, pc, local, retry, installation_clients, tokens, user_config>>

NextSweep ==
  \/ refresh_all_active_freezes
  \/ sweep_repository
  \/ sweep_sleep

SpecSweep ==
  InitSweep /\ [][NextSweep]_vars

(* The Active, unexpired records with a well-formed name. *)
SweepDue ==
  { x \in get_active_freezes(records, now) : Len(split(x.repository)) = 2 }

(* C25: a failed refresh_repository_prs does not stop the sweep: when the *)
(* sweep returns its map, every Active freeze with a well-formed name was   *)
(* refreshed once, the map has an entry for every such repository, and the  *)
(* entry of a repository whose refresh failed carries an error description. *)
C25_SweepSurvivesFailures ==
  (refresh.pc = "done" /\ refresh.result = "ok") =>
    /\ { c[1] : c \in Range(refresh.calls) } = SweepDue
    /\ Len(refresh.calls) = Cardinality(SweepDue)
    /\ DOMAIN refresh.results = { x.repository : x \in SweepDue }
    /\ \A c \in Range(refresh.calls) :
         c[2] = FALSE => refresh.results[c[1].repository].errors # <<>>

(* C25, a sweep of two repositories: the refresh of the first failed, the  *)
(* second was refreshed all the same and the first carries the error.      *)
C25_FirstFailedOthersRefreshed ==
  /\ refresh.pc = "done"
  /\ refresh.result = "ok"
  /\ Len(refresh.calls) = 2
  /\ refresh.calls[1][2] = FALSE
  /\ refresh.calls[2][2] = TRUE
  /\ DOMAIN refresh.results = { "o/a", "o/b" }
  /\ refresh.results["o/a"].errors = << "Repository refresh failed" >>
  /\ refresh.results["o/b"].errors = <<>>

-----------------------------------------------------------------------------
(* refresh_single_pr and the unlock registry on their own.  The store holds *)
(* at most one record of the repository (Active or Ended, unscoped or       *)
(* scoped to a branch) and possibly an Active record of another repository; *)
(* thread t1 issues UnlockedPr::unlock_pr and refresh_single_pr calls, one  *)
(* after the other.                                                         *)

SingleRecords ==
  { {} } \cup
  { { [ Unwrap(f) EXCEPT !.status = s ] } \cup other :
      f \in FreezeInputs \ { None },
      s \in { "active", "ended" },
      other \in { {}, { new(2, "o/b", 2, 0, Some(DEFAULT_FREEZE_DURATION), "alice", 0) } } }

InitSingle ==
  /\ now = 0
  /\ records \in SingleRecords
  /\ unlocked_prs = {}
  /\ open_prs = PullRequests
  /\ checks = [ k \in Targets \X PrNumbers |-> NoCheck ]
  /\ pc = [ t \in Threads |-> "idle" ]
  /\ installation_clients = NoClients
  /\ tokens = 0
  /\ user_config = None
  /\ local = [ t \in Threads |-> IdleLocal ]
  /\ refresh = RefreshIdle
  /\ retry = RetryIdle

(* A call of UnlockedPr::unlock_pr with its arguments. *)
unlock_pr_call(target, pr_number, unlocked_by) ==
  /\ pc["t1"] = "idle"
  /\ pc' = [ pc EXCEPT !["t1"] = "unlock_pr" ]
  /\ local' = [ local EXCEPT !["t1"] =
         [ IdleLocal EXCEPT !.op = "unlock_pr", !.target = target,
                            !.pr = pr_number, !.actor = unlocked_by ] ]
  /\ UNCHANGED <<now, records, unlocked_prs, open_prs, checks, refresh, retry, installation_clients, tokens, user_config>>

(* The INSERT OR REPLACE statement. *)
unlock_pr_execute ==
  /\ pc["t1"] = "unlock_pr"
  /\ unlocked_prs' = unlock_pr(unlocked_prs, local["t1"].target[1],
                               local["t1"].target[2], local["t1"].pr,
                               local["t1"].actor)
  /\ pc' = [ pc EXCEPT !["t1"] = "idle" ]
  /\ local' = [ local EXCEPT !["t1"].outcome = "ok" ]
  /\ UNCHANGED <<now, records, open_prs, checks, refresh, retry, installation_clients, tokens, user_config>>

(* A call of refresh_single_pr with its arguments. *)
refresh_single_pr_call(target, pr_number) ==
  /\ pc["t1"] = "idle"
  /\ pc' = [ pc EXCEPT !["t1"] = "refresh_single_pr" ]
  /\ local' = [ local EXCEPT !["t1"] =
         [ IdleLocal EXCEPT !.op = "refresh_single_pr", !.target = target,
                            !.pr = pr_number ] ]
  /\ UNCHANGED <<now, records, unlocked_prs, open_prs, checks, refresh, retry, installation_clients, tokens, user_config>>

(* refresh_single_pr: get_pr, the freeze lookup, the unlock lookup and the  *)
(* retried status-create; any of them may fail and then no status is        *)
(* created.                                                                 *)
refresh_single_pr_execute ==
  /\ pc["t1"] = "refresh_single_pr"
  /\ \E fetched \in BOOLEAN :
       \E freeze_record \in ActiveFreezeResults(records, local["t1"].target) :
         /\ checks' = refresh_single_pr(checks, records, unlocked_prs,
                                        local["t1"].target, local["t1"].pr,
                                        freeze_record, fetched)
         /\ local' = [ local EXCEPT !["t1"].outcome = IF fetched THEN "ok" ELSE "err" ]
  /\ pc' = [ pc EXCEPT !["t1"] = "idle" ]
  /\ UNCHANGED <<now, records, unlocked_prs, open_prs, refresh, retry, installation_clients, tokens, user_config>>

NextSingle ==
  \/ \E target \in Targets, n \in UnlockPrNumbers, a \in Actors :
       unlock_pr_call(target, n, a)
  \/ unlock_pr_execute
  \/ \E n \in PrNumbers : refresh_single_pr_call(RefreshTarget, n)
  \/ refresh_single_pr_execute

SpecSingle ==
  InitSingle /\ [][NextSingle]_vars

(* An Active freeze of the pair whose scope covers the PR exists and the PR *)
(* has no record in the unlock registry.                                    *)
FrozenAndLocked(target, pr_number) ==
  /\ \E x \in records :
       /\ x.installation_id = target[1]
       /\ x.repository = target[2]
       /\ x.status = "active"
       /\ (x.branch = None \/ x.branch = Some(PrByNumber(pr_number).base_ref))
  /\ ~ \E u \in unlocked_prs :
         /\ u.installation_id = target[1]
         /\ u.repository = target[2]
         /\ u.pr_number = pr_number

(* C26: the status refresh_single_pr creates is failing if and only if an *)
(* Active freeze exists for the repository, the freeze has no branch scope  *)
(* or its scope is the PR's base branch, and the PR is not in the unlock    *)
(* registry; every other status it creates is passing; a failed call        *)
(* creates no status.                                                       *)
C26_SingleFailsIffFrozenAndLocked ==
  [][ (pc["t1"] = "refresh_single_pr" /\ pc'["t1"] = "idle") =>
        LET k == << local["t1"].target, local["t1"].pr >>
        IN IF local'["t1"].outcome = "ok"
             THEN /\ checks'[k].conclusion =
                       IF FrozenAndLocked(local["t1"].target, local["t1"].pr)
                         THEN "failure" ELSE "success"
                  /\ \A j \in DOMAIN checks \ { k } : checks'[j] = checks[j]
             ELSE checks' = checks ]_vars

(* C26, the cases: under one Active freeze scoped to main, PR 5 (main) is *)
(* failing, PR 6 (main, unlocked) and PR 7 (dev) are passing.               *)
C26_FailingUnlockedOutOfScope ==
  /\ \E x \in records : x.status = "active" /\ x.branch = Some("main")
                        /\ x.repository = RefreshTarget[2]
  /\ is_pr_unlocked(unlocked_prs, RefreshTarget[1], RefreshTarget[2], 6)
  /\ checks[<<RefreshTarget, 5>>].conclusion = "failure"
  /\ checks[<<RefreshTarget, 6>>].conclusion = "success"
  /\ checks[<<RefreshTarget, 7>>].conclusion = "success"

(* C27: every status entry created has content that matches its          *)
(* conclusion: a failing entry carries the freeze details, a passing entry  *)
(* the plain not-frozen message, also when the PR passes under an Active    *)
(* freeze because it is unlocked or targets a branch outside the scope.     *)
C27_ContentMatchesConclusion ==
  \A k \in DOMAIN checks :
    /\ checks[k].conclusion = "failure" => checks[k].output = "freeze_details"
    /\ checks[k].conclusion = "success" => checks[k].output = "not_frozen"


(* C28: unlocking is an upsert on (installation, repository, pr_number):  *)
(* after every unlock_pr the registry holds exactly one record of the       *)
(* triple, carrying the actor of this (the last) unlock, is_pr_unlocked is  *)
(* true for it, no triple has two records and the records of the other      *)
(* triples are as before; so the registry after two unlocks of a triple is  *)
(* the registry after the second one alone.                                 *)
C28_UnlockIsUpsert ==
  [][ (pc["t1"] = "unlock_pr" /\ pc'["t1"] = "idle") =>
        LET a == local["t1"]
            mine(S) == { u \in S : /\ u.installation_id = a.target[1]
                                   /\ u.repository = a.target[2]
                                   /\ u.pr_number = a.pr }
        IN /\ mine(unlocked_prs') =
                { [ installation_id |-> a.target[1], repository |-> a.target[2],
                    pr_number |-> a.pr, unlocked_by |-> a.actor ] }
           /\ is_pr_unlocked(unlocked_prs', a.target[1], a.target[2], a.pr)
           /\ unlocked_prs' \ mine(unlocked_prs') = unlocked_prs \ mine(unlocked_prs)
           /\ \A u, v \in unlocked_prs' :
                ( /\ u.installation_id = v.installation_id
                  /\ u.repository = v.repository
                  /\ u.pr_number = v.pr_number ) => u = v ]_vars

(* C28, the second unlock of a triple: alice's record of PR 6 is stored,   *)
(* beside a record of the other repository, and bob's unlock of that PR is  *)
(* about to replace it.                                                     *)
C28_SecondUnlockByBob ==
  /\ pc["t1"] = "unlock_pr"
  /\ local["t1"].target = RefreshTarget
  /\ local["t1"].actor = "bob"
  /\ unlocked_prs = unlock_pr(unlock_pr({}, 2, "o/b", 6, "bob"),
                              RefreshTarget[1], RefreshTarget[2], 6, "alice")


-----------------------------------------------------------------------------
(* FreezeManager::unlock_pr beside the other handlers: thread t1 runs      *)
(* /unlock-pr commands while thread t2 freezes and unfreezes the same       *)
(* repository; the freeze lookup and the registry write of unlock_pr may    *)
(* fail.                                                                    *)

(* FreezeManager::unlock_pr: the Active-freeze lookup returns Err. *)
manager_unlock_pr_lookup_err(t, target, pr_number, author) ==
  /\ pc[t] = "idle"
  /\ pc' = [ pc EXCEPT ![t] = "notify" ]
  /\ local' = [ local EXCEPT ![t] =
         [ IdleLocal EXCEPT !.op = "unlock", !.target = target, !.actor = author,
                            !.pr = pr_number, !.outcome = "err_lookup" ] ]
  /\ UNCHANGED <<now, records, unlocked_prs, checks, refresh, retry, open_prs, installation_clients, tokens, user_config>>

(* FreezeManager::unlock_pr: UnlockedPr::unlock_pr returns Err; the error  *)
(* comment is posted and refresh_single_pr is not called.                   *)
manager_unlock_pr_write_err(t) ==
  /\ pc[t] = "unlock_write"
  /\ pc' = [ pc EXCEPT ![t] = "notify" ]
  /\ local' = [ local EXCEPT ![t].outcome = "err_unlock" ]
  /\ UNCHANGED <<now, records, unlocked_prs, checks, refresh, retry, open_prs, installation_clients, tokens, user_config>>

NextUnlock ==
  \/ UnlockCommands("t1", SharedTargets, Actors)
  \/ \E n \in UnlockPrNumbers, actor \in Actors :
       manager_unlock_pr_lookup_err("t1", RefreshTarget, n, actor)
  \/ manager_unlock_pr_write_err("t1")
  \/ notify("t1")
  \/ FreezeCommands("t2", SharedTargets, SharedDurations)
  \/ UnfreezeCommands("t2", SharedTargets, Enders)
  \/ Advance

SpecUnlock ==
  Init /\ [][NextUnlock]_vars

(* The repository of the pair has an Active record. *)
HasActive(recs, target) ==
  \E x \in recs : /\ x.installation_id = target[1]
                  /\ x.repository = target[2]
                  /\ x.status = "active"

(* C29: an unlock record is created only while the repository has an      *)
(* Active freeze: a registry write happens in an unlock_pr whose lookup     *)
(* found an Active freeze, at a moment when the repository has one; an      *)
(* unlock_pr that finds none, or whose lookup fails, goes to its error      *)
(* comment without a write or a refresh_single_pr; and refresh_single_pr is *)
(* entered only once the record of the PR is stored.                        *)
C29_UnlockOnlyUnderActiveFreeze ==
  [][ /\ unlocked_prs' # unlocked_prs =>
           /\ pc["t1"] = "unlock_write"
           /\ HasActive(records, local["t1"].target)
      /\ (pc["t1"] = "idle" /\ pc'["t1"] = "unlock_write") =>
           HasActive(records, local'["t1"].target)
      /\ (pc["t1"] = "idle" /\ local'["t1"].op = "unlock"
            /\ ~ HasActive(records, local'["t1"].target)) =>
           pc'["t1"] = "notify"
      /\ (pc["t1"] = "notify" /\ pc'["t1"] # "notify") =>
           /\ pc'["t1"] = "idle"
           /\ unlocked_prs' = unlocked_prs
           /\ checks' = checks
      /\ (pc["t1"] # "unlock_refresh" /\ pc'["t1"] = "unlock_refresh") =>
           /\ pc["t1"] = "unlock_write"
           /\ is_pr_unlocked(unlocked_prs', local["t1"].target[1],
                             local["t1"].target[2], local["t1"].pr) ]_vars


-----------------------------------------------------------------------------
(* The cache of installation clients: src/github/mod.rs.  Two tasks call   *)
(* installation_client concurrently, for either installation; every await   *)
(* (the read lock, the token request, the write lock) is a point where the  *)
(* other task may run.  A token is named by its serial number at the token  *)
(* endpoint.                                                                *)

MaxTokens ==
  3

(* The life of a cached token, less the buffer of is_expired, in units of   *)
(* the clock.                                                               *)
TokenLifetime ==
  1

(* CachedInstallationClient::is_expired, as far as the clock decides it. *)
is_expired(cached, t) ==
  t >= cached.created_at + TokenLifetime

(* The block under the read lock: the cached client, unless there is none   *)
(* or it is expired.                                                        *)
cache_lookup(clients, installation_id, t) ==
  IF IsSome(clients[installation_id]) /\ ~ is_expired(Unwrap(clients[installation_id]), t)
    THEN Some(Unwrap(clients[installation_id]).token)
    ELSE None

(* installation_client: the cache is read under the read lock; a valid      *)
(* entry is returned, otherwise the lock is dropped and                     *)
(* create_installation_client is entered.  Parsing the expiry of a cached   *)
(* token may panic, which ends the task.                                    *)
installation_client(t, installation_id) ==
  /\ pc[t] = "idle"
  /\ LET hit == cache_lookup(installation_clients, installation_id, now)
         call == [ IdleLocal EXCEPT !.op = "installation_client",
                                    !.target = <<installation_id, "">> ]
     IN \/ /\ IsSome(hit)
           /\ pc' = [ pc EXCEPT ![t] = "client_return" ]
           /\ local' = [ local EXCEPT ![t] = [ call EXCEPT !.client = hit,
                                                           !.outcome = "cached" ] ]
        \/ /\ hit = None
           /\ pc' = [ pc EXCEPT ![t] = "create_installation_token" ]
           /\ local' = [ local EXCEPT ![t] = call ]
        \/ /\ IsSome(installation_clients[installation_id])
           /\ pc' = [ pc EXCEPT ![t] = "client_return" ]
           /\ local' = [ local EXCEPT ![t] = [ call EXCEPT !.outcome = "panic" ] ]
  /\ UNCHANGED <<now, records, unlocked_prs, open_prs, checks, refresh, retry, installation_clients, tokens, user_config>>

(* create_installation_client: the token request, which issues a new token  *)
(* or fails.                                                                *)
create_installation_token(t) ==
  /\ pc[t] = "create_installation_token"
  /\ tokens < MaxTokens
  /\ \/ /\ tokens' = tokens + 1
        /\ pc' = [ pc EXCEPT ![t] = "cache_insert" ]
        /\ local' = [ local EXCEPT ![t].client = Some(tokens + 1) ]
     \/ /\ tokens' = tokens
        /\ pc' = [ pc EXCEPT ![t] = "client_return" ]
        /\ local' = [ local EXCEPT ![t].outcome = "err" ]
  /\ UNCHANGED <<now, records, unlocked_prs, open_prs, checks, refresh, retry, installation_clients, user_config>>

(* create_installation_client: clients.insert under the write lock; the     *)
(* client built from the new token is returned.                             *)
cache_insert(t) ==
  /\ pc[t] = "cache_insert"
  /\ installation_clients' =
       [ installation_clients EXCEPT ![local[t].target[1]] =
           Some([ token |-> Unwrap(local[t].client), created_at |-> now ]) ]
  /\ pc' = [ pc EXCEPT ![t] = "client_return" ]
  /\ local' = [ local EXCEPT ![t].outcome = "created" ]
  /\ UNCHANGED <<now, records, unlocked_prs, open_prs, checks, refresh, retry, tokens, user_config>>

(* The caller has its result. *)
client_return(t) ==
  /\ pc[t] = "client_return"
  /\ pc' = [ pc EXCEPT ![t] = "idle" ]
  /\ local' = [ local EXCEPT ![t] = IdleLocal ]
  /\ UNCHANGED <<now, records, unlocked_prs, open_prs, checks, refresh, retry, installation_clients, tokens, user_config>>

NextClients ==
  \/ \E t \in Requests, i \in InstallationIds : installation_client(t, i)
  \/ \E t \in Requests : create_installation_token(t)
  \/ \E t \in Requests : cache_insert(t)
  \/ \E t \in Requests : client_return(t)
  \/ Advance

SpecClients ==
  Init /\ [][NextClients]_vars

(* The callers of the installation that are past a miss and have not yet    *)
(* returned.                                                                *)
Missed(installation_id) ==
  { t \in Requests : /\ pc[t] \in { "create_installation_token", "cache_insert" }
                     /\ local[t].target[1] = installation_id }

(* C30: of the concurrent installation_client calls of one installation    *)
(* that found the cache empty or expired, at most one creates a token: no   *)
(* token is requested for an installation while another caller of it holds  *)
(* a new token it has yet to store, or while a valid one is cached.         *)
C30_OneTokenPerMiss ==
  [][ \A t \in Requests :
        (pc[t] = "create_installation_token" /\ pc'[t] = "cache_insert") =>
          /\ \A u \in Missed(local[t].target[1]) \ { t } : pc[u] # "cache_insert"
          /\ cache_lookup(installation_clients, local[t].target[1], now) = None ]_vars


-----------------------------------------------------------------------------
(* C31: no freeze record with a degenerate interval is ever stored: every *)
(* stored record with an end has its end strictly after its start.         *)
C31_NoDegenerateInterval ==
  \A x \in records :
    IsSome(x.expires_at) => Unwrap(x.expires_at) > x.started_at


-----------------------------------------------------------------------------
(* Permissions: src/config.rs and src/permissions.rs.  A UserPermissions   *)
(* value is its role string and its two flags; a HashMap is a function on  *)
(* the set of its keys.                                                    *)

Commands ==
  { "freeze", "freeze_all", "unfreeze", "unfreeze_all", "status",
    "schedule_freeze", "unlock_pr" }

(* The role strings in play; "owner" is not a role. *)
RoleStrings ==
  { "admin", "maintainer", "contributor", "owner" }

AllUserPermissions ==
  [ role : RoleStrings, can_freeze : BOOLEAN, can_unfreeze : BOOLEAN ]

(* UserPermissions::to_role: Ok(role), or Err on an unknown role string. *)
to_role(user_permissions) ==
  IF user_permissions.role \in { "admin", "maintainer", "contributor" }
    THEN Some(user_permissions.role)
    ELSE None

is_admin(role) ==
  role = "admin"

(* A maintainer that may freeze whatever its flag. *)
can_freeze_any_maintainer(role, permissions) ==
  role \in { "admin", "maintainer" }

can_freeze(role, permissions) ==
  CASE role = "admin"       -> TRUE
    [] role = "maintainer"  -> permissions.can_freeze
    [] role = "contributor" -> FALSE

can_freeze_all(role, permissions) ==
  CASE role = "admin"       -> TRUE
    [] role = "maintainer"  -> permissions.can_freeze
    [] role = "contributor" -> FALSE

can_unfreeze(role, permissions) ==
  CASE role = "admin"       -> TRUE
    [] role = "maintainer"  -> permissions.can_unfreeze
    [] role = "contributor" -> FALSE

can_unfreeze_all(role, permissions) ==
  CASE role = "admin"       -> TRUE
    [] role = "maintainer"  -> permissions.can_unfreeze
    [] role = "contributor" -> FALSE

can_view_status(role) ==
  TRUE

can_schedule_freeze(role, permissions) ==
  CASE role = "admin"       -> TRUE
    [] role = "maintainer"  -> permissions.can_freeze
    [] role = "contributor" -> FALSE

(* check_command_permission: Err on an unknown role, else Allowed or Denied. *)
check_command_permission(user_permissions, command) ==
  IF to_role(user_permissions) = None
    THEN "Err"
    ELSE LET role == Unwrap(to_role(user_permissions))
             allowed ==
               CASE command = "freeze"          -> can_freeze(role, user_permissions)
                 [] command = "freeze_all"      -> can_freeze_all(role, user_permissions)
                 [] command = "unfreeze"        -> can_unfreeze(role, user_permissions)
                 [] command = "unfreeze_all"    -> can_unfreeze_all(role, user_permissions)
                 [] command = "status"          -> can_view_status(role)
                 [] command = "schedule_freeze" -> can_schedule_freeze(role, user_permissions)
                 [] command = "unlock_pr"       -> is_admin(role)
         IN  IF allowed THEN "Allowed" ELSE "Denied"

(* installation_id.to_string() on the ids in play. *)
to_string(installation_id) ==
  CASE installation_id = 1 -> "1"
    [] installation_id = 2 -> "2"
    [] OTHER               -> "0"

(* A lookup that tries the installation's global entry before the          *)
(* repository's.                                                           *)
get_user_permissions_global_first(config, installation_id, repository, user_login) ==
  IF to_string(installation_id) \notin DOMAIN config.installations
    THEN None
    ELSE LET installation == config.installations[to_string(installation_id)]
         IN  IF user_login \in DOMAIN installation.global_users
               THEN Some(installation.global_users[user_login])
             ELSE IF /\ repository \in DOMAIN installation.repositories
                     /\ user_login \in DOMAIN installation.repositories[repository].users
               THEN Some(installation.repositories[repository].users[user_login])
             ELSE installation.default_permissions

(* UserPermissionsConfig::get_user_permissions *)
get_user_permissions(config, installation_id, repository, user_login) ==
  IF to_string(installation_id) \notin DOMAIN config.installations
    THEN None
    ELSE LET installation == config.installations[to_string(installation_id)]
         IN  IF /\ repository \in DOMAIN installation.repositories
                /\ user_login \in DOMAIN installation.repositories[repository].users
               THEN Some(installation.repositories[repository].users[user_login])
             ELSE IF user_login \in DOMAIN installation.global_users
               THEN Some(installation.global_users[user_login])
             ELSE installation.default_permissions

(* PermissionService::check_permission *)
check_permission(config, installation_id, repository, user_login, command) ==
  LET user_permissions == get_user_permissions(config, installation_id, repository,
                                               user_login)
  IN  IF user_permissions = None
        THEN "Denied"
        ELSE check_command_permission(Unwrap(user_permissions), command)


(* The configurations drawn: installation "1" with any default, a          *)
(* repository entry and a global entry for either user, beside an          *)
(* installation "2" of admins; or no installation at all.                  *)
PartialMaps(keys, values) ==
  UNION { [ D -> values ] : D \in SUBSET keys }

admin ==
  [ role |-> "admin", can_freeze |-> TRUE, can_unfreeze |-> TRUE ]

maintainer ==
  [ role |-> "maintainer", can_freeze |-> TRUE, can_unfreeze |-> TRUE ]

contributor ==
  [ role |-> "contributor", can_freeze |-> FALSE, can_unfreeze |-> FALSE ]

InstallationConfigs ==
  [ default_permissions : { None } \cup { Some(p) : p \in AllUserPermissions },
    repositories : PartialMaps({ "o/a" },
                     [ users : PartialMaps(Actors, { admin, contributor }) ]),
    global_users : PartialMaps(Actors, { maintainer }) ]

OtherInstallation ==
  [ default_permissions |-> Some(admin), repositories |-> <<>>, global_users |-> <<>> ]

PermissionConfigs ==
  { [ installations |-> <<>> ] } \cup
  { [ installations |-> ("1" :> c) ] : c \in InstallationConfigs } \cup
  { [ installations |-> ("1" :> c) @@ ("2" :> OtherInstallation) ] :
      c \in InstallationConfigs }

InitPermissions ==
  /\ now = 0
  /\ records = {}
  /\ unlocked_prs = {}
  /\ open_prs = << PrByNumber(6) >>
  /\ checks = [ k \in Targets \X PrNumbers |-> NoCheck ]
  /\ \E target \in Targets, user_login \in Actors, command \in Commands :
       /\ pc = [ t \in Threads |-> IF t = "t1" THEN "check_permission" ELSE "idle" ]
       /\ local = [ t \in Threads |->
                      IF t = "t1"
                        THEN [ IdleLocal EXCEPT !.op = command, !.target = target,
                                                !.actor = user_login ]
                        ELSE IdleLocal ]
  /\ refresh = RefreshIdle
  /\ retry = RetryIdle
  /\ installation_clients = NoClients
  /\ tokens = 0
  /\ user_config \in { Some(c) : c \in PermissionConfigs }

(* PermissionService::check_permission on the request of the thread. *)
check_permission_call(t) ==
  /\ pc[t] = "check_permission"
  /\ IsSome(user_config)
  /\ pc' = [ pc EXCEPT ![t] = "checked" ]
  /\ local' = [ local EXCEPT
                  ![t].user_permissions =
                     get_user_permissions(Unwrap(user_config), local[t].target[1],
                                          local[t].target[2], local[t].actor),
                  ![t].outcome =
                     check_permission(Unwrap(user_config), local[t].target[1],
                                      local[t].target[2], local[t].actor, local[t].op) ]
  /\ UNCHANGED <<now, records, unlocked_prs, open_prs, checks, refresh, retry, installation_clients, tokens, user_config>>

NextPermissions ==
  \E t \in Requests : check_permission_call(t)

SpecPermissions ==
  InitPermissions /\ [][NextPermissions]_vars

(* The request of thread t1 was checked against permissions of this role. *)
CheckedAs(role) ==
  /\ pc["t1"] = "checked"
  /\ IsSome(local["t1"].user_permissions)
  /\ Unwrap(local["t1"].user_permissions).role = role

(* C32: the role rules of the permission check: an admin is allowed every *)
(* command whatever its flags; a maintainer is allowed freeze, freeze-all  *)
(* and schedule-freeze iff can_freeze, unfreeze and unfreeze-all iff       *)
(* can_unfreeze, and never unlock-pr; a contributor is allowed status and  *)
(* nothing else, whatever its flags.                                       *)
C32_RoleRules ==
  LET command == local["t1"].op
      allowed == local["t1"].outcome = "Allowed"
      denied  == local["t1"].outcome = "Denied"
      p       == Unwrap(local["t1"].user_permissions)
  IN /\ CheckedAs("admin") => allowed
     /\ CheckedAs("maintainer") =>
          /\ command \in { "freeze", "freeze_all", "schedule_freeze" } =>
               IF p.can_freeze THEN allowed ELSE denied
          /\ command \in { "unfreeze", "unfreeze_all" } =>
               IF p.can_unfreeze THEN allowed ELSE denied
          /\ command = "unlock_pr" => denied
     /\ CheckedAs("contributor") =>
          IF command = "status" THEN allowed ELSE denied

(* C32, a case: a maintainer without can_freeze but with can_unfreeze is  *)
(* denied freeze-all.                                                      *)
C32_MaintainerWithoutFreeze ==
  /\ CheckedAs("maintainer")
  /\ ~ Unwrap(local["t1"].user_permissions).can_freeze
  /\ Unwrap(local["t1"].user_permissions).can_unfreeze
  /\ local["t1"].op = "freeze_all"
  /\ local["t1"].outcome = "Denied"


(* The entries of the configuration that the request of thread t1 names. *)
Configured ==
  to_string(local["t1"].target[1]) \in DOMAIN Unwrap(user_config).installations

RequestInstallation ==
  Unwrap(user_config).installations[to_string(local["t1"].target[1])]

HasRepositoryEntry ==
  /\ Configured
  /\ local["t1"].target[2] \in DOMAIN RequestInstallation.repositories
  /\ local["t1"].actor \in
       DOMAIN RequestInstallation.repositories[local["t1"].target[2]].users

HasGlobalEntry ==
  /\ Configured
  /\ local["t1"].actor \in DOMAIN RequestInstallation.global_users

(* C33: get_user_permissions resolves in strict precedence: the user's    *)
(* entry under the repository if there is one, otherwise the user's global *)
(* entry of the installation, otherwise the installation's default, and    *)
(* None when the installation is not configured or has neither entry nor   *)
(* default; on None check_permission returns Denied.                       *)
C33_PermissionPrecedence ==
  pc["t1"] = "checked" =>
    LET resolved == local["t1"].user_permissions
    IN /\ HasRepositoryEntry =>
            resolved = Some(RequestInstallation.repositories[local["t1"].target[2]]
                              .users[local["t1"].actor])
       /\ (~ HasRepositoryEntry /\ HasGlobalEntry) =>
            resolved = Some(RequestInstallation.global_users[local["t1"].actor])
       /\ (Configured /\ ~ HasRepositoryEntry /\ ~ HasGlobalEntry) =>
            resolved = RequestInstallation.default_permissions
       /\ ~ Configured => resolved = None
       /\ resolved = None => local["t1"].outcome = "Denied"

(* C33, a case: alice has a contributor entry under o/a, a maintainer     *)
(* global entry and an admin default; her freeze is checked as a           *)
(* contributor's and denied.                                               *)
C33_RepositoryEntryWins ==
  /\ pc["t1"] = "checked"
  /\ HasRepositoryEntry
  /\ HasGlobalEntry
  /\ RequestInstallation.default_permissions = Some(admin)
  /\ local["t1"].user_permissions = Some(contributor)
  /\ local["t1"].op = "freeze"
  /\ local["t1"].outcome = "Denied"


-----------------------------------------------------------------------------
(* The scheduler next to one request thread: every await of the tick is a  *)
(* point where a command may run, and the other way round.                 *)

NextFrame ==
  \/ ScheduleCommands("t1", SharedTargets, SharedDurations)
  \/ create_insert("t1")
  \/ notify("t1")
  \/ UnfreezeCommands("t1", SharedTargets, Enders)
  \/ UnlockCommands("t1", SharedTargets, Enders)
  \/ SchedulerStep
  \/ Advance

SpecFrame ==
  Init /\ [][NextFrame]_vars

(* C34: a step of a scheduler tick leaves the Unlock Registry alone, and   *)
(* the only stored record it replaces is one its query returned, which is  *)
(* still stored as queried: Scheduled, with started_at not after the       *)
(* clock. An Active record, an Ended record and a Scheduled record that    *)
(* starts later are never written, and no record is added or removed.      *)
C34_TickWritesOnlyDueScheduled ==
  [][ pc'[Scheduler] # pc[Scheduler] =>
        /\ unlocked_prs' = unlocked_prs
        /\ \A x \in records \ records' :
             /\ x.status = "scheduled"
             /\ x.started_at <= now
             /\ x \in Range(local[Scheduler].todo)
        /\ \A y \in records' \ records :
             \E x \in records \ records' : y.id = x.id ]_vars

(* A tick has just activated a record while an Ended record and an unlock  *)
(* are stored.                                                             *)
C34_ActivatedBesideOthers ==
  /\ pc[Scheduler] = "tick_refresh"
  /\ \E x \in records : x.id = local[Scheduler].record.id /\ x.status = "active"
  /\ \E x \in records : x.status = "ended"
  /\ unlocked_prs # {}

-----------------------------------------------------------------------------
(* The comment handler: src/handlers/mod.rs *)

(* A gate that lets every command through when no configuration is loaded. *)
issue_comment_permission_open(config, installation_id, repository, author, command) ==
  IF IsSome(config)
    THEN check_permission(Unwrap(config), installation_id, repository, author, command)
    ELSE "Allowed"

(* issue_comment_handler, the permission gate: the verdict of              *)
(* check_permission when a configuration is loaded; without one, status is *)
(* let through and every other command denied.                             *)
issue_comment_permission(config, installation_id, repository, author, command) ==
  IF IsSome(config)
    THEN check_permission(Unwrap(config), installation_id, repository, author, command)
    ELSE IF command = "status" THEN "Allowed" ELSE "Denied"

(* get_installation_repositories: the repositories of the installation.    *)
InstallationRepositories(installation_id) ==
  { target \in Targets : target[1] = installation_id }

(* issue_comment_handler on a comment that parses as a command: the gate,  *)
(* then either the denial comment or the start of the command's manager    *)
(* call (the gate has no await of its own).  freeze_all and unfreeze_all   *)
(* run handle_freeze and handle_unfreeze on each repository of the         *)
(* installation, which is one repository here; get_status reads and        *)
(* comments.                                                               *)
issue_comment_handler(t, target, author, command) ==
  /\ pc[t] = "idle"
  /\ LET verdict == issue_comment_permission(user_config, target[1], target[2],
                                             author, command)
     IN  IF verdict # "Allowed"
           THEN /\ pc' = [ pc EXCEPT ![t] = "notify" ]
                /\ local' = [ local EXCEPT ![t] =
                       [ IdleLocal EXCEPT !.op = command, !.target = target,
                                          !.actor = author,
                                          !.outcome = IF verdict = "Denied"
                                                        THEN "denied"
                                                        ELSE "err_permission" ] ]
                /\ UNCHANGED <<now, records, unlocked_prs, checks, refresh, retry, open_prs, installation_clients, tokens, user_config>>
           ELSE CASE command = "freeze" ->
                       \E duration \in SharedDurations :
                          handle_freeze(t, target, duration, author)
                  [] command = "freeze_all" ->
                       \E repo \in InstallationRepositories(target[1]),
                          duration \in SharedDurations :
                          handle_freeze(t, repo, duration, author)
                  [] command = "unfreeze" ->
                       handle_unfreeze(t, target, author)
                  [] command = "unfreeze_all" ->
                       \E repo \in InstallationRepositories(target[1]) :
                          handle_unfreeze(t, repo, author)
                  [] command = "schedule_freeze" ->
                       \E start \in Times, duration \in SharedDurations :
                          schedule_freeze(t, target, start, None, duration, author)
                  [] command = "unlock_pr" ->
                       \E n \in UnlockPrNumbers :
                          manager_unlock_pr(t, target, n, author)
                  [] command = "status" ->
                       /\ pc' = [ pc EXCEPT ![t] = "notify" ]
                       /\ local' = [ local EXCEPT ![t] =
                              [ IdleLocal EXCEPT !.op = command, !.target = target,
                                                 !.actor = author, !.outcome = "ok" ] ]
                       /\ UNCHANGED <<now, records, unlocked_prs, checks, refresh, retry, open_prs, installation_clients, tokens, user_config>>

(* The configurations a handler runs under: alice an admin of "o/a" and    *)
(* bob a maintainer who may freeze but not unfreeze; bob a contributor of  *)
(* "o/a" and everybody else under a default with an unknown role; no       *)
(* installation at all.                                                    *)
HandlerConfigs ==
  { [ installations |-> <<>> ],
    [ installations |->
        ( "1" :> [ default_permissions |-> None,
                   repositories |-> ( "o/a" :> [ users |-> ( "alice" :> admin ) ] ),
                   global_users |-> ( "bob" :> [ maintainer EXCEPT !.can_unfreeze = FALSE ] ) ] ) ],
    [ installations |->
        ( "1" :> [ default_permissions |-> Some([ admin EXCEPT !.role = "owner" ]),
                   repositories |-> ( "o/a" :> [ users |-> ( "bob" :> contributor ) ] ),
                   global_users |-> <<>> ] ) ] }

InitHandler ==
  /\ now = 0
  /\ records = {}
  /\ unlocked_prs = {}
  /\ open_prs = << PrByNumber(6) >>
  /\ checks = [ k \in Targets \X PrNumbers |-> NoCheck ]
  /\ pc = [ t \in Threads |-> "idle" ]
  /\ installation_clients = NoClients
  /\ tokens = 0
  /\ user_config \in { None } \cup { Some(c) : c \in HandlerConfigs }
  /\ local = [ t \in Threads |-> IdleLocal ]
  /\ refresh = RefreshIdle
  /\ retry = RetryIdle

NextHandler ==
  \/ \E target \in Targets, author \in Actors, command \in Commands :
       issue_comment_handler("t1", target, author, command)
  \/ create_insert("t1")
  \/ handle_freeze_refresh("t1")
  \/ handle_unfreeze_update("t1")
  \/ handle_unfreeze_refresh("t1")
  \/ manager_unlock_pr_write("t1")
  \/ manager_unlock_pr_refresh("t1")
  \/ notify("t1")

SpecHandler ==
  InitHandler /\ [][NextHandler]_vars

(* The commands that start the manager call recorded as op. *)
CommandsOf(op) ==
  CASE op = "freeze"   -> { "freeze", "freeze_all" }
    [] op = "schedule" -> { "schedule_freeze" }
    [] op = "unfreeze" -> { "unfreeze", "unfreeze_all" }
    [] op = "unlock"   -> { "unlock_pr" }
    [] OTHER           -> { op }

(* The permission check lets the author run the command on the repository: *)
(* Allowed under the loaded configuration, or status when none is loaded.  *)
Permitted(command, target, author) ==
  IF IsSome(user_config)
    THEN check_permission(Unwrap(user_config), target[1], target[2], author,
                          command) = "Allowed"
    ELSE command = "status"

(* C35: the Freeze Store and the Unlock Registry change only in a step of  *)
(* a manager call that a comment started after the permission check        *)
(* returned Allowed; a comment whose command the check denied or failed on *)
(* (every command but status when no configuration is loaded) goes         *)
(* straight to its denial comment and returns, writing neither.            *)
C35_WritesOnlyWhenAllowed ==
  [][ /\ ( records' # records \/ unlocked_prs' # unlocked_prs ) =>
           \E t \in Requests :
              /\ pc[t] \notin { "idle", "notify" }
              /\ pc'[t] # pc[t]
              /\ \E command \in CommandsOf(local[t].op) :
                    Permitted(command, local[t].target, local[t].actor)
      /\ \A t \in Requests :
           ( /\ pc[t] = "idle"
             /\ pc'[t] # "idle"
             /\ \A command \in CommandsOf(local'[t].op) :
                   ~ Permitted(command, local'[t].target, local'[t].actor) ) =>
             /\ pc'[t] = "notify"
             /\ local'[t].outcome \in { "denied", "err_permission" }
             /\ records' = records
             /\ unlocked_prs' = unlocked_prs
      /\ \A t \in Requests :
           ( pc[t] = "notify" /\ local[t].outcome \in { "denied", "err_permission" } ) =>
             /\ pc'[t] = "idle"
             /\ records' = records
             /\ unlocked_prs' = unlocked_prs ]_vars

(* Bob's unfreeze of a repository he froze himself is denied: the Active   *)
(* record stays.                                                           *)
C35_DeniedUnfreezeOfFrozen ==
  /\ pc["t1"] = "notify"
  /\ local["t1"].op = "unfreeze"
  /\ local["t1"].outcome = "denied"
  /\ \E x \in records :
        /\ << x.installation_id, x.repository >> = local["t1"].target
        /\ x.status = "active"
        /\ x.initiated_by = local["t1"].actor

-----------------------------------------------------------------------------
(* The command parser: src/freezer/commands.rs *)

MaxArgs ==
  3

(* The tokens a comment is split into after the command word. *)
ArgTokens ==
  { "--duration", "--reason", "--bogus", "2h", "foo", "\"a", "b\"" }

ArgLists ==
  UNION { [ 1..n -> ArgTokens ] : n \in 0..MaxArgs }

starts_with_dashes(arg) ==
  arg \in { "--duration", "--reason", "--bogus" }

starts_with_quote(arg) ==
  arg = "\"a"

ends_with_quote(arg) ==
  arg = "b\""

(* parse_duration: Ok on digits followed by one of s, m, h, d. *)
parse_duration_is_ok(arg) ==
  arg = "2h"

(* parse_quoted_arg, the index it returns: one past start_idx, or, after   *)
(* an opening quote, past the first later token that ends with a quote     *)
(* (or the end of the arguments).  Indices count from 0 as in the source;  *)
(* args[j] of the source is args[j + 1] here.                              *)
RECURSIVE quoted_arg_end(_, _)
quoted_arg_end(args, j) ==
  IF j < Len(args) /\ ~ ends_with_quote(args[j])
    THEN quoted_arg_end(args, j + 1)
    ELSE j

parse_quoted_arg(args, start_idx) ==
  IF starts_with_quote(args[start_idx + 1])
    THEN quoted_arg_end(args, start_idx + 1)
    ELSE start_idx + 1

(* CommandParser::parse on "/freeze ..." or "/unfreeze ...": the argument  *)
(* loop starts at index 0.                                                 *)
parse(t, command, args) ==
  /\ pc[t] = "idle"
  /\ pc' = [ pc EXCEPT ![t] = "parse_loop" ]
  /\ local' = [ local EXCEPT ![t] =
         [ IdleLocal EXCEPT !.op = command, !.todo = args, !.pr = 0 ] ]
  /\ UNCHANGED <<now, records, unlocked_prs, checks, refresh, retry, open_prs, installation_clients, tokens, user_config>>

(* The parser returns: Ok(Command) or Err(ParseError). *)
parse_returns(t, outcome) ==
  /\ pc' = [ pc EXCEPT ![t] = "parsed" ]
  /\ local' = [ local EXCEPT ![t].outcome = outcome ]

parse_advances(t, next_idx) ==
  /\ pc' = pc
  /\ local' = [ local EXCEPT ![t].pr = next_idx ]

(* parse_freeze: the loop test and one iteration of the argument loop.     *)
(* The last arm of the match logs and leaves the index where it is.        *)
parse_freeze(t) ==
  /\ pc[t] = "parse_loop"
  /\ local[t].op = "/freeze"
  /\ LET args == local[t].todo
         i    == local[t].pr
     IN  IF ~ ( i < Len(args) )
           THEN parse_returns(t, "ok")
           ELSE CASE args[i + 1] = "--duration" ->
                       IF i + 1 >= Len(args)
                         THEN parse_returns(t, "err_missing_argument")
                         ELSE IF parse_duration_is_ok(args[i + 2])
                                THEN parse_advances(t, i + 2)
                                ELSE parse_returns(t, "err_invalid_duration")
                  [] args[i + 1] = "--reason" ->
                       IF i + 1 >= Len(args)
                         THEN parse_returns(t, "err_missing_argument")
                         ELSE parse_advances(t, parse_quoted_arg(args, i + 1))
                  [] /\ args[i + 1] \notin { "--duration", "--reason" }
                     /\ starts_with_dashes(args[i + 1]) ->
                       parse_returns(t, "err_invalid_argument")
                  [] OTHER ->
                       /\ pc' = pc
                       /\ local' = local
  /\ UNCHANGED <<now, records, unlocked_prs, checks, refresh, retry, open_prs, installation_clients, tokens, user_config>>

(* parse_unfreeze: the same loop with --reason as its only argument. *)
parse_unfreeze(t) ==
  /\ pc[t] = "parse_loop"
  /\ local[t].op = "/unfreeze"
  /\ LET args == local[t].todo
         i    == local[t].pr
     IN  IF ~ ( i < Len(args) )
           THEN parse_returns(t, "ok")
           ELSE CASE args[i + 1] = "--reason" ->
                       IF i + 1 >= Len(args)
                         THEN parse_returns(t, "err_missing_argument")
                         ELSE parse_advances(t, parse_quoted_arg(args, i + 1))
                  [] /\ args[i + 1] # "--reason"
                     /\ starts_with_dashes(args[i + 1]) ->
                       parse_returns(t, "err_invalid_argument")
                  [] OTHER ->
                       /\ pc' = pc
                       /\ local' = local
  /\ UNCHANGED <<now, records, unlocked_prs, checks, refresh, retry, open_prs, installation_clients, tokens, user_config>>

(* The caller takes the result. *)
parse_done(t) ==
  /\ pc[t] = "parsed"
  /\ pc' = [ pc EXCEPT ![t] = "idle" ]
  /\ local' = [ local EXCEPT ![t] = IdleLocal ]
  /\ UNCHANGED <<now, records, unlocked_prs, checks, refresh, retry, open_prs, installation_clients, tokens, user_config>>

NextParse ==
  \/ \E command \in { "/freeze", "/unfreeze" }, args \in ArgLists :
       parse("t1", command, args)
  \/ parse_freeze("t1")
  \/ parse_unfreeze("t1")
  \/ parse_done("t1")

(* The parser is a plain loop: it keeps running until it returns.  An      *)
(* iteration that changes nothing is followed by the very same iteration.  *)
SpecParse ==
  /\ Init
  /\ [][NextParse]_vars
  /\ WF_vars(parse_freeze("t1") \/ parse_unfreeze("t1"))

(* C36: parse terminates on every token sequence after /freeze or          *)
(* /unfreeze: a parse that has entered the argument loop returns, with a   *)
(* Command or a ParseError.                                                *)
C36_ParseTerminates ==
  [] ( pc["t1"] = "parse_loop" => <> ( pc["t1"] = "parsed" ) )

(* C37: once a record is Ended, its ended_at and ended_by stay as they     *)
(* are: of two unfreeze calls on the same repository, only one ends each   *)
(* record, and the record keeps that actor and that time.                  *)
C37_EndedKeepsActorAndTime ==
  [][ \A x \in records :
        x.status = "ended" =>
          \E y \in records' :
             /\ y.id = x.id
             /\ y.ended_at = x.ended_at
             /\ y.ended_by = x.ended_by ]_vars

-----------------------------------------------------------------------------
(* handle_unfreeze when a store update fails. *)

(* handle_unfreeze: update_status of the next listed record returns Err;   *)
(* `?` returns it at once, with no refresh and nothing undone.             *)
handle_unfreeze_update_err(t) ==
  /\ pc[t] = "unfreeze_update"
  /\ pc' = [ pc EXCEPT ![t] = "notify" ]
  /\ local' = [ local EXCEPT ![t].outcome = "err_update" ]
  /\ UNCHANGED <<now, records, unlocked_prs, checks, refresh, retry, open_prs, installation_clients, tokens, user_config>>

(* Freezes of one repository and the first unfreeze of its history, whose  *)
(* updates may fail.                                                       *)
NoneEnded ==
  \A x \in records : x.status # "ended"

NextUndo ==
  \/ FreezeCommands("t1", SharedTargets, SharedDurations)
  \/ NoneEnded /\ \E target \in SharedTargets, actor \in Enders :
                     handle_unfreeze("t1", target, actor)
  \/ handle_unfreeze_update("t1")
  \/ handle_unfreeze_update_err("t1")
  \/ handle_unfreeze_refresh("t1")
  \/ Advance

SpecUndo ==
  Init /\ [][NextUndo]_vars

(* C38: when handle_unfreeze returns the error of a failed store update,   *)
(* no record of the repository has been changed to Ended.                  *)
C38_FailedUnfreezeChangesNothing ==
  \A t \in Requests :
    ( pc[t] = "notify" /\ local[t].op = "unfreeze" /\ local[t].outcome = "err_update" ) =>
      \A x \in records :
        << x.installation_id, x.repository >> = local[t].target => x.status # "ended"

-----------------------------------------------------------------------------
(* The pull-request event handler: src/server/handlers/pr.rs *)

(* FreezeManager::is_frozen: true iff a stored record with status Active   *)
(* exists for the pair.                                                    *)
manager_is_frozen(recs, target) ==
  is_frozen(recs, target[1], target[2])

(* handle_pull_request, the conclusion: Failure unless is_frozen answers   *)
(* false.                                                                  *)
pull_request_conclusion(recs, target) ==
  IF ~ manager_is_frozen(recs, target) THEN "success" ELSE "failure"

(* A pull-request event for a change request of the repository arrives. *)
handle_pull_request_call(target, pr_number) ==
  /\ pc["t1"] = "idle"
  /\ pc' = [ pc EXCEPT !["t1"] = "pull_request" ]
  /\ local' = [ local EXCEPT !["t1"] =
         [ IdleLocal EXCEPT !.op = "pull_request", !.target = target,
                            !.pr = pr_number ] ]
  /\ UNCHANGED <<now, records, unlocked_prs, open_prs, checks, refresh, retry, installation_clients, tokens, user_config>>

(* handle_pull_request: is_frozen, then create_check_run on the head commit *)
(* of the event's PR; either may fail, and then no status is created.       *)
handle_pull_request ==
  /\ pc["t1"] = "pull_request"
  /\ \E created \in BOOLEAN :
       /\ checks' = IF created
                      THEN [ checks EXCEPT ![<<local["t1"].target, local["t1"].pr>>] =
                               [ conclusion |-> pull_request_conclusion(records,
                                                                        local["t1"].target),
                                 output     |-> "none" ] ]
                      ELSE checks
       /\ local' = [ local EXCEPT !["t1"].outcome = IF created THEN "ok" ELSE "err" ]
  /\ pc' = [ pc EXCEPT !["t1"] = "idle" ]
  /\ UNCHANGED <<now, records, unlocked_prs, open_prs, refresh, retry, installation_clients, tokens, user_config>>

NextEvent ==
  \/ \E target \in Targets, n \in UnlockPrNumbers, a \in Actors :
       unlock_pr_call(target, n, a)
  \/ unlock_pr_execute
  \/ \E n \in PrNumbers : refresh_single_pr_call(RefreshTarget, n)
  \/ refresh_single_pr_execute
  \/ \E n \in PrNumbers : handle_pull_request_call(RefreshTarget, n)
  \/ handle_pull_request

SpecEvent ==
  InitSingle /\ [][NextEvent]_vars

(* C39: the conclusion handle_pull_request writes on a pull-request event  *)
(* is the conclusion refresh_single_pr would write for the same change     *)
(* request in the same store state.                                        *)
C39_EventAgreesWithSingleRefresh ==
  [][ ( pc["t1"] = "pull_request" /\ local'["t1"].outcome = "ok" ) =>
        \E freeze_record \in ActiveFreezeResults(records, local["t1"].target) :
           checks'[<<local["t1"].target, local["t1"].pr>>].conclusion =
             single_conclusion(freeze_record, unlocked_prs, local["t1"].target[1],
                               local["t1"].target[2], PrByNumber(local["t1"].pr)) ]_vars

-----------------------------------------------------------------------------
====
